---- MODULE Spec2Model ----
(***************************************************************************)
(* sprockets.mixins.mediatype.content: the ContentSettings registry, the   *)
(* response content negotiation and the request body decoding of           *)
(* ContentMixin, as state machines over a finite universe of header        *)
(* strings.                                                                *)
(***************************************************************************)
EXTENDS Integers, Sequences, FiniteSets, TLC

\* Python's None.  No header string of the universe is spelled like this.
None == "None"

(***************************************************************************)
(* Strings.  A header string is a TLA+ string.  What str.split() makes of  *)
(* it is tabulated in Tokens; everything the code then does with the       *)
(* pieces (case folding, dict building, sorting, joining) is computed.     *)
(***************************************************************************)

\* The strings used as registry keys by SetItem and GetItem.
RegistryStrings ==
    { "application/json",
      "application/msgpack",
      "application/json; charset=UTF-8",
      "application/json; charset=utf-8",
      "application/json; VerSion=foo; type=whatever",
      "application/json; type=whatever; version=foo",
      "application/json; type=WhatEver; version=foo",
      "application" }

\* The media ranges that occur as elements of the Accept headers below.
RangeStrings ==
    { "application/msgpack;q=1.0", "application/json;q=0.5",
      "application/msgpack;q=0.5", "application/json;q=0.8",
      "application/xml", "application/*", "*/*", "text/*;q=0.8",
      "application/vendor+msgpack" }

\* The pieces str.split() cuts a media type string into: the text before the
\* first ';' cut at '/', its second piece cut at '+', and every following
\* ';' piece, stripped, cut at '='.  Letter case is kept.
Tokens(s) ==
    CASE s = "application/json" ->
           [slash |-> <<"application", "json">>, plus |-> <<"json">>, params |-> <<>>]
      [] s = "application/msgpack" ->
           [slash |-> <<"application", "msgpack">>, plus |-> <<"msgpack">>, params |-> <<>>]
      [] s = "application/xml" ->
           [slash |-> <<"application", "xml">>, plus |-> <<"xml">>, params |-> <<>>]
      [] s = "text/xml" ->
           [slash |-> <<"text", "xml">>, plus |-> <<"xml">>, params |-> <<>>]
      [] s = "application/vendor+msgpack" ->
           [slash |-> <<"application", "vendor+msgpack">>,
            plus |-> <<"vendor", "msgpack">>, params |-> <<>>]
      [] s = "application/json; charset=UTF-8" ->
           [slash |-> <<"application", "json">>, plus |-> <<"json">>,
            params |-> << <<"charset", "UTF-8">> >>]
      [] s = "application/json; charset=utf-8" ->
           [slash |-> <<"application", "json">>, plus |-> <<"json">>,
            params |-> << <<"charset", "utf-8">> >>]
      [] s = "application/json; charset=UTF-8; version=foo" ->
           [slash |-> <<"application", "json">>, plus |-> <<"json">>,
            params |-> << <<"charset", "UTF-8">>, <<"version", "foo">> >>]
      [] s = "application/json; version=foo" ->
           [slash |-> <<"application", "json">>, plus |-> <<"json">>,
            params |-> << <<"version", "foo">> >>]
      [] s = "application/json; VerSion=foo; type=whatever" ->
           [slash |-> <<"application", "json">>, plus |-> <<"json">>,
            params |-> << <<"VerSion", "foo">>, <<"type", "whatever">> >>]
      [] s = "application/json; type=whatever; version=foo" ->
           [slash |-> <<"application", "json">>, plus |-> <<"json">>,
            params |-> << <<"type", "whatever">>, <<"version", "foo">> >>]
      [] s = "application/json; type=WhatEver; version=foo" ->
           [slash |-> <<"application", "json">>, plus |-> <<"json">>,
            params |-> << <<"type", "WhatEver">>, <<"version", "foo">> >>]
      [] s = "application" ->
           [slash |-> <<"application">>, plus |-> <<>>, params |-> <<>>]
      [] s = "application/msgpack;q=1.0" ->
           [slash |-> <<"application", "msgpack">>, plus |-> <<"msgpack">>,
            params |-> << <<"q", "1.0">> >>]
      [] s = "application/msgpack;q=0.5" ->
           [slash |-> <<"application", "msgpack">>, plus |-> <<"msgpack">>,
            params |-> << <<"q", "0.5">> >>]
      [] s = "application/json;q=0.5" ->
           [slash |-> <<"application", "json">>, plus |-> <<"json">>,
            params |-> << <<"q", "0.5">> >>]
      [] s = "application/json;q=0.8" ->
           [slash |-> <<"application", "json">>, plus |-> <<"json">>,
            params |-> << <<"q", "0.8">> >>]
      [] s = "application/*" ->
           [slash |-> <<"application", "*">>, plus |-> <<"*">>, params |-> <<>>]
      [] s = "text/*;q=0.8" ->
           [slash |-> <<"text", "*">>, plus |-> <<"*">>,
            params |-> << <<"q", "0.8">> >>]
      [] s = "*/*" ->
           [slash |-> <<"*", "*">>, plus |-> <<"*">>, params |-> <<>>]

\* str.lower() on the tokens of the universe.
Lower(t) ==
    CASE t = "VerSion" -> "version"
      [] t = "WhatEver" -> "whatever"
      [] t = "UTF-8" -> "utf-8"
      [] OTHER -> t

\* The tokens of the universe in code point order, which is the
\* order Python compares str by.
StrOrder ==
    << "*", "UTF-8", "VerSion", "WhatEver", "application", "charset", "foo",
       "json", "msgpack", "q", "text", "type", "utf-8", "vendor", "version",
       "whatever", "xml" >>

StrRank(t) == CHOOSE i \in 1..Len(StrOrder) : StrOrder[i] = t

\* a < b on str
StrLt(a, b) == StrRank(a) < StrRank(b)

(***************************************************************************)
(* ietfparse.headers.parse_content_type and datastructures.ContentType, as *)
(* called by ContentSettings.                                              *)
(***************************************************************************)

\* parse_content_type raises ValueError: the two-way unpacking of
\* split('/'), split('+') or split('=') does not get two pieces.
Malformed(s) ==
    LET tok == Tokens(s) IN
    \/ Len(tok.slash) # 2
    \/ Len(tok.plus) > 2
    \/ \E i \in 1..Len(tok.params) : Len(tok.params[i]) # 2

\* ParameterDict without the lower-casing of the parameter names.
ParameterDictKeepNames(pairs) ==
    [ n \in { pairs[i][1] : i \in 1..Len(pairs) } |->
        Lower(pairs[CHOOSE i \in 1..Len(pairs) : pairs[i][1] = n][2]) ]

\* ParameterDict without the case-folding of the parameter values.
ParameterDictKeepValues(pairs) ==
    [ n \in { Lower(pairs[i][1]) : i \in 1..Len(pairs) } |->
        pairs[CHOOSE i \in 1..Len(pairs) : Lower(pairs[i][1]) = n][2] ]

\* ParameterDict with the case-folding of the value of charset only.
ParameterDictFoldCharset(pairs) ==
    LET names == { Lower(pairs[i][1]) : i \in 1..Len(pairs) }
        latest(n) == CHOOSE i \in 1..Len(pairs) :
                      /\ Lower(pairs[i][1]) = n
                      /\ \A j \in 1..Len(pairs) : Lower(pairs[j][1]) = n => j <= i
    IN [ n \in names |-> IF n = "charset" THEN Lower(pairs[latest(n)][2])
                         ELSE pairs[latest(n)][2] ]

\* _parse_parameter_list (values case-folded, the default) followed by the
\* dict() of the pairs and ContentType.__init__'s lower-casing of the names:
\* of two pairs with the same folded name the later one stays.
ParameterDict(pairs) ==
    LET names == { Lower(pairs[i][1]) : i \in 1..Len(pairs) }
        latest(n) == CHOOSE i \in 1..Len(pairs) :
                      /\ Lower(pairs[i][1]) = n
                      /\ \A j \in 1..Len(pairs) : Lower(pairs[j][1]) = n => j <= i
    IN [ n \in names |-> Lower(pairs[latest(n)][2]) ]

\* parse_content_type(s) for a string that parses: a ContentType.
ParseContentType(s) ==
    LET tok == Tokens(s) IN
    [ content_type    |-> Lower(tok.slash[1]),
      content_subtype |-> Lower(tok.plus[1]),
      content_suffix  |-> IF Len(tok.plus) = 2 THEN Lower(tok.plus[2]) ELSE None,
      parameters      |-> ParameterDict(tok.params) ]

\* sorted(names): ascending by code point.
RECURSIVE SortedNames(_)
SortedNames(names) ==
    IF names = {} THEN <<>>
    ELSE LET m == CHOOSE n \in names : \A o \in names : ~StrLt(o, n)
         IN <<m>> \o SortedNames(names \ {m})

\* '; '.join('{0}={1}'.format(name, parameters[name]) for name in names)
RECURSIVE JoinParameters(_, _)
JoinParameters(names, parameters) ==
    IF names = <<>> THEN ""
    ELSE Head(names) \o "=" \o parameters[Head(names)]
         \o (IF Len(names) > 1 THEN "; " ELSE "")
         \o JoinParameters(Tail(names), parameters)

\* ContentType.__str__ with the parameters in the order given.
StrWith(ct, names) ==
    ct.content_type \o "/" \o ct.content_subtype
    \o (IF ct.content_suffix \notin {None, ""} THEN "+" \o ct.content_suffix ELSE "")
    \o (IF names # <<>> THEN "; " \o JoinParameters(names, ct.parameters) ELSE "")

\* str(parsed): the normalized string, the key of the handler map.
Str(ct) == StrWith(ct, SortedNames(DOMAIN ct.parameters))

(***************************************************************************)
(* ietfparse.headers.parse_accept and algorithms.select_content_type, as   *)
(* called by ContentMixin.get_response_content_type.                       *)
(***************************************************************************)

\* The values of the Accept header the requests carry.
AcceptHeaders ==
    { "application/msgpack;q=1.0, application/json;q=0.5",
      "application/json;q=0.8, application/msgpack;q=0.5",
      "application/*, application/json;q=0.5",
      "application/xml",
      "*/*" }

\* parse_list: the elements of a comma separated header value, stripped.
ParseList(h) ==
    CASE h = "application/msgpack;q=1.0, application/json;q=0.5" ->
           << "application/msgpack;q=1.0", "application/json;q=0.5" >>
      [] h = "application/json;q=0.8, application/msgpack;q=0.5" ->
           << "application/json;q=0.8", "application/msgpack;q=0.5" >>
      [] h = "application/*, application/json;q=0.5" ->
           << "application/*", "application/json;q=0.5" >>
      [] h = "application/*, application/msgpack;q=0.5" ->
           << "application/*", "application/msgpack;q=0.5" >>
      [] h = "*/*, text/*;q=0.8" ->
           << "*/*", "text/*;q=0.8" >>
      [] OTHER -> << h >>

\* float(q) in units of 10^-8.
Float(q) ==
    CASE q = "1.0" -> 100000000
      [] q = "0.8" -> 80000000
      [] q = "0.5" -> 50000000
      [] q = "0"   -> 0

\* float(next_explicit_q) in units of 10^-8 for the k-th range that spells
\* out q=1.0: Decimal('5.0').next_plus() with nine digits, 5.00000001, then
\* next_minus() for each further one, which runs in the default context of
\* 28 digits and steps down by less than a float holds: every such range
\* gets the same float.
ExplicitOne(k) == 500000001

\* The dict d without key k: d.pop(k, None).
DictPop(d, k) == [ x \in DOMAIN d \ {k} |-> d[x] ]

\* How many of the first i elements spell out a q that is 1.0.
RECURSIVE ExplicitOnes(_, _)
ExplicitOnes(parsed, i) ==
    IF i = 0 THEN 0
    ELSE ExplicitOnes(parsed, i - 1)
         + (IF /\ "q" \in DOMAIN parsed[i].parameters
               /\ Float(parsed[i].parameters["q"]) = Float("1.0")
            THEN 1 ELSE 0)

\* ContentType.__eq__
ContentTypeEq(a, b) ==
    /\ a.content_type = b.content_type
    /\ a.content_subtype = b.content_subtype
    /\ a.content_suffix = b.content_suffix
    /\ a.parameters = b.parameters

\* ContentType.__lt__
ContentTypeLt(a, b) ==
    IF a.content_type = b.content_type
    THEN IF a.content_subtype = b.content_subtype
         THEN Cardinality(DOMAIN a.parameters) < Cardinality(DOMAIN b.parameters)
         ELSE StrLt(a.content_subtype, b.content_subtype)
    ELSE StrLt(a.content_type, b.content_type)

\* a > b as functools.total_ordering derives it from __lt__ and __eq__.
ContentTypeGt(a, b) == ~ContentTypeLt(a, b) /\ ~ContentTypeEq(a, b)

\* sorted(seq), where less holds the pairs <<i, j>> of positions with
\* seq[i] < seq[j].  The sort is stable: element i comes after the earlier
\* elements it is not less than and after the later elements that are less
\* than it.
Sorted(seq, less) ==
    LET before(i) == { j \in 1..Len(seq) : \/ (j < i /\ <<i, j>> \notin less)
                                          \/ (j > i /\ <<j, i>> \in less) }
    IN [ p \in 1..Len(seq) |->
           seq[CHOOSE i \in 1..Len(seq) : Cardinality(before(i)) = p - 1] ]

\* The pairs of positions of seq.
Positions(seq) == (1..Len(seq)) \X (1..Len(seq))

\* ordering(left, right) < 0 in parse_accept.
AcceptOrdering(left, right) ==
    IF left.quality # right.quality THEN right.quality - left.quality < 0
    ELSE IF ContentTypeEq(left, right) THEN FALSE
    ELSE ContentTypeGt(left, right)

\* An element of the header raises ValueError in parse_content_type.
AcceptMalformed(h) == \E i \in 1..Len(ParseList(h)) : Malformed(ParseList(h)[i])

\* parse_accept(h): the ranges, each with its quality, q taken out of the
\* parameters, in decreasing quality order.
ParseAccept(h) ==
    LET elems == ParseList(h)
        parsed == [ i \in 1..Len(elems) |-> ParseContentType(elems[i]) ]
        quality(i) ==
            IF "q" \notin DOMAIN parsed[i].parameters THEN Float("1.0")
            ELSE IF Float(parsed[i].parameters["q"]) = Float("1.0")
            THEN ExplicitOne(ExplicitOnes(parsed, i))
            ELSE Float(parsed[i].parameters["q"])
        ranges == [ i \in 1..Len(elems) |->
                     [ content_type    |-> parsed[i].content_type,
                       content_subtype |-> parsed[i].content_subtype,
                       content_suffix  |-> parsed[i].content_suffix,
                       parameters      |-> DictPop(parsed[i].parameters, "q"),
                       quality         |-> quality(i) ] ]
    IN CHOOSE sorted \in
         { Sorted(r, { p \in Positions(r) : AcceptOrdering(r[p[1]], r[p[2]]) }) :
             r \in {ranges} } : TRUE

\* _content_type_matches(candidate, pattern)
ContentTypeMatches(candidate, pattern) ==
    /\ pattern.content_type = "*" \/ candidate.content_type = pattern.content_type
    /\ pattern.content_subtype = "*"
       \/ candidate.content_subtype = pattern.content_subtype

\* Match.match_type: WILDCARD, PARTIAL, FULL_TYPE = 2, 1, 0
MatchType(pattern) ==
    IF pattern.content_type = "*" /\ pattern.content_subtype = "*" THEN 2
    ELSE IF pattern.content_subtype = "*" THEN 1
    ELSE 0

\* Match.parameter_distance
ParameterDistance(candidate, pattern) ==
    Cardinality(DOMAIN candidate.parameters)
    - Cardinality({ k \in DOMAIN candidate.parameters \cap DOMAIN pattern.parameters :
                      pattern.parameters[k] = candidate.parameters[k] })
    + Cardinality({ k \in DOMAIN candidate.parameters \cap DOMAIN pattern.parameters :
                      pattern.parameters[k] # candidate.parameters[k] })

\* sorted(requested, key=extract_quality, reverse=True)
SortedByQuality(requested) ==
    Sorted(requested, { p \in Positions(requested) :
                          requested[p[1]].quality > requested[p[2]].quality })

\* sorted(requested, key=extract_quality): without reverse=True, the least
\* preferred range first.
SortedByQualityAscending(requested) ==
    Sorted(requested, { p \in Positions(requested) :
                          requested[p[1]].quality < requested[p[2]].quality })

\* sorted(available)
SortedCandidates(candidates) ==
    Sorted(candidates, { p \in Positions(candidates) :
                           ContentTypeLt(candidates[p[1]], candidates[p[2]]) })

\* select_content_type that returns the first match it meets, whatever the
\* kind of range that matched.
SelectFromFirstMatch(patterns, candidates) ==
    LET n == Len(patterns) * Len(candidates)
        pat(k) == patterns[((k - 1) \div Len(candidates)) + 1]
        cand(k) == candidates[((k - 1) % Len(candidates)) + 1]
        matching == { k \in 1..n : ContentTypeMatches(cand(k), pat(k)) }
        first(S) == CHOOSE k \in S : \A o \in S : k <= o
    IN IF matching = {}
       THEN [ raised |-> "NoMatch" ]
       ELSE [ raised |-> None, selected |-> cand(first(matching)),
              pattern |-> pat(first(matching)) ]

\* The loops of select_content_type over the sorted patterns and candidates:
\* they visit the <<pattern, candidate>> pairs in the order k = 1..n; the first
\* pair of equal types ends the search (with NoMatch if its quality is 0),
\* otherwise the matches are sorted (stably) by match_type and
\* parameter_distance and the first of them is returned.
SelectFrom(patterns, candidates) ==
    LET n == Len(patterns) * Len(candidates)
        pat(k) == patterns[((k - 1) \div Len(candidates)) + 1]
        cand(k) == candidates[((k - 1) % Len(candidates)) + 1]
        matching == { k \in 1..n : ContentTypeMatches(cand(k), pat(k)) }
        exact == { k \in matching : ContentTypeEq(cand(k), pat(k)) }
        first(S) == CHOOSE k \in S : \A o \in S : k <= o
        better(k, o) ==
            \/ MatchType(pat(k)) < MatchType(pat(o))
            \/ /\ MatchType(pat(k)) = MatchType(pat(o))
               /\ ParameterDistance(cand(k), pat(k)) < ParameterDistance(cand(o), pat(o))
        best == { k \in matching : \A o \in matching : ~better(o, k) }
    IN IF exact # {}
       THEN IF pat(first(exact)).quality = 0
            THEN [ raised |-> "NoMatch" ]
            ELSE [ raised |-> None, selected |-> cand(first(exact)),
                   pattern |-> pat(first(exact)) ]
       ELSE IF matching = {}
       THEN [ raised |-> "NoMatch" ]
       ELSE [ raised |-> None, selected |-> cand(first(best)),
              pattern |-> pat(first(best)) ]

\* select_content_type with the patterns taken in increasing quality order.
SelectContentTypeAscending(requested, available) ==
    CHOOSE r \in { SelectFrom(p, c) : p \in {SortedByQualityAscending(requested)},
                                      c \in {SortedCandidates(available)} } : TRUE

\* algorithms.select_content_type(requested, available)
SelectContentType(requested, available) ==
    CHOOSE r \in { SelectFrom(p, c) : p \in {SortedByQuality(requested)},
                                      c \in {SortedCandidates(available)} } : TRUE

\* '/'.join([content_type, content_subtype]), then '+'.join with the suffix
\* if there is one: the parameters are left out.
TypeString(ct) ==
    IF ct.content_suffix # None
    THEN ct.content_type \o "/" \o ct.content_subtype \o "+" \o ct.content_suffix
    ELSE ct.content_type \o "/" \o ct.content_subtype

(***************************************************************************)
(* The transcoders (handlers.py and transcoders.py) and the stand-in of    *)
(* the tests.                                                              *)
(***************************************************************************)

\* The request bodies: a JSON object, the JSON null, and a byte that is
\* neither UTF-8 nor a MessagePack tag.
Bodies == { "{}", "null", "\\xc1" }

\* transcoder.from_bytes(body): the decoded value, or the exception.
FromBytes(t, b) ==
    CASE t = "json" /\ b = "{}"   -> [ raised |-> None, value |-> "dict()" ]
      [] t = "json" /\ b = "null" -> [ raised |-> None, value |-> None ]
      [] t = "json"               -> [ raised |-> "UnicodeDecodeError" ]
      [] t = "msgpack" /\ b = "{}"   -> [ raised |-> None, value |-> "123" ]
      [] t = "msgpack" /\ b = "null" -> [ raised |-> None, value |-> "110" ]
      [] t = "msgpack"               -> [ raised |-> "UnpackException" ]
      [] t = "fake"                  -> [ raised |-> None, value |-> None ]

\* transcoder.to_bytes(value): the content type to send and the bytes.
ToBytes(t, v) ==
    CASE t = "json" ->
           [ content_type |-> "application/json; charset=\"utf-8\"",
             data |-> "json.dumps(" \o v \o ")" ]
      [] t = "msgpack" ->
           [ content_type |-> "application/msgpack",
             data |-> "umsgpack.packb(" \o v \o ")" ]
      [] t = "fake" ->
           [ content_type |-> "", data |-> "" ]

(***************************************************************************)
(* State.                                                                  *)
(***************************************************************************)

\* The transcoder objects an application registers: a TextContentHandler for
\* JSON, a BinaryContentHandler for MessagePack, and the FakeContentHandler
\* of the tests.
Transcoders == { "json", "msgpack", "fake" }

\* The default content types an application sets.
DefaultContentTypes == { "application/json", "application/msgpack" }

\* The values of the Content-Type header the requests carry.
ContentTypeHeaders ==
    { "application/json", "application/msgpack", "application/xml",
      "application/json; charset=utf-8", "application" }

\* The values handed to send_response.
Values == { "dict()" }

VARIABLES
    handlers,               \* ContentSettings._handlers: normalized string -> transcoder
    available,              \* ContentSettings._available_types: list of ContentType
    default_content_type,   \* ContentSettings.default_content_type
    headers,                \* handler.request.headers: name -> value
    body,                   \* handler.request.body
    best_response_match,    \* ContentMixin._best_response_match
    request_body,           \* ContentMixin._request_body
    response,               \* the Content-Type and Vary response headers and the chunks written
    calls,                  \* history: the <<string, transcoder>> of every __setitem__ call
    returned,               \* history: what the first successful call of each getter of this request returned
    failed,                 \* history: a get_request_body call of this request raised HTTPError
    installed,              \* SETTINGS_KEY in application.settings
    constructed,            \* history: how many ContentSettings were built for the application
    default_encoding,       \* ContentSettings.default_encoding
    other,                  \* the fields of a second handler of the application, not running
    last                    \* the last operation, its arguments and its outcome

registry == << handlers, available, calls >>
request == << headers, body, best_response_match, request_body, response,
             returned, failed >>
instance == << installed, constructed, default_encoding >>
vars == << handlers, available, default_content_type, headers, body,
           best_response_match, request_body, response, calls, returned, failed,
           installed, constructed, default_encoding, other, last >>

\* Longest history of __setitem__ calls explored.
MaxCalls == 3

\* Most chunks written to one response.
MaxWrites == 1

\* The response of a handler that has sent nothing: RequestHandler starts
\* with a text/html Content-Type.
NoResponse ==
    [ content_type |-> "text/html; charset=UTF-8", vary |-> << >>, written |-> << >> ]

\* The fields of a handler after ContentMixin.initialize, for the request
\* with headers h and body b.
NewHandler(h, b) ==
    [ headers |-> h, body |-> b, best_response_match |-> None,
      request_body |-> None, response |-> NoResponse, returned |-> << >>,
      failed |-> FALSE ]

\* ContentSettings.__init__ with no application holding the settings yet,
\* and two handlers after ContentMixin.initialize for requests without
\* headers.
Init ==
    /\ handlers = << >>
    /\ available = << >>
    /\ default_content_type = None
    /\ headers = << >>
    /\ body = "{}"
    /\ best_response_match = None
    /\ request_body = None
    /\ response = NoResponse
    /\ calls = << >>
    /\ returned = << >>
    /\ failed = FALSE
    /\ installed = FALSE
    /\ constructed = 0
    /\ default_encoding = None
    /\ other = NewHandler(<< >>, "{}")
    /\ last = [ op |-> "init" ]

\* get_settings(application, force_instance=True) as a step of an operation:
\* install(application, None) builds the settings if there are none.
ForceInstance ==
    /\ installed' = TRUE
    /\ constructed' = IF installed THEN constructed ELSE constructed + 1
    /\ default_encoding' = IF installed THEN default_encoding ELSE None

\* The dict d with key k bound to v.
DictSet(d, k, v) == [ x \in DOMAIN d \cup {k} |-> IF x = k THEN v ELSE d[x] ]

\* __setitem__ without the `in self._handlers` test: a later registration
\* replaces the transcoder.
SetItemOverwrite(s, t) ==
    /\ Len(calls) < MaxCalls
    /\ calls' = Append(calls, <<s, t>>)
    /\ IF Malformed(s)
       THEN /\ last' = [ op |-> "setitem", arg |-> s, raised |-> "ValueError" ]
            /\ UNCHANGED << handlers, available >>
       ELSE LET parsed == ParseContentType(s)
                content_type == Str(parsed)
            IN /\ last' = [ op |-> "setitem", arg |-> s, raised |-> None ]
               /\ available' = IF content_type \in DOMAIN handlers
                                THEN available ELSE Append(available, parsed)
               /\ handlers' = DictSet(handlers, content_type, t)
    /\ UNCHANGED << default_content_type, request, other >>

\* __setitem__ with the append to _available_types ahead of the
\* `in self._handlers` test.
SetItemAppendFirst(s, t) ==
    /\ Len(calls) < MaxCalls
    /\ calls' = Append(calls, <<s, t>>)
    /\ IF Malformed(s)
       THEN /\ last' = [ op |-> "setitem", arg |-> s, raised |-> "ValueError" ]
            /\ UNCHANGED << handlers, available >>
       ELSE LET parsed == ParseContentType(s)
                content_type == Str(parsed)
            IN /\ last' = [ op |-> "setitem", arg |-> s, raised |-> None ]
               /\ available' = Append(available, parsed)
               /\ handlers' = IF content_type \in DOMAIN handlers THEN handlers
                               ELSE DictSet(handlers, content_type, t)
    /\ UNCHANGED << default_content_type, request, other >>

\* ContentSettings.__setitem__
SetItem(s, t) ==
    /\ Len(calls) < MaxCalls
    /\ calls' = Append(calls, <<s, t>>)
    /\ IF Malformed(s)
       THEN /\ last' = [ op |-> "setitem", arg |-> s, raised |-> "ValueError" ]
            /\ UNCHANGED << handlers, available >>
       ELSE LET parsed == ParseContentType(s)
                content_type == Str(parsed)
            IN /\ last' = [ op |-> "setitem", arg |-> s, raised |-> None ]
               /\ IF content_type \in DOMAIN handlers
                  THEN UNCHANGED << handlers, available >>
                  ELSE /\ available' = Append(available, parsed)
                       /\ handlers' = DictSet(handlers, content_type, t)
    /\ UNCHANGED << default_content_type, request, other >>

\* settings[s]: the transcoder, or the exception.
Lookup(s) ==
    IF Malformed(s) THEN [ raised |-> "ValueError" ]
    ELSE IF Str(ParseContentType(s)) \in DOMAIN handlers
    THEN [ raised |-> None, value |-> handlers[Str(ParseContentType(s))] ]
    ELSE [ raised |-> "KeyError" ]

\* __getitem__ without the normalization of its argument.
GetItemRaw(s) ==
    /\ last' =
         IF Malformed(s)
         THEN [ op |-> "getitem", arg |-> s, raised |-> "ValueError" ]
         ELSE IF s \in DOMAIN handlers
         THEN [ op |-> "getitem", arg |-> s, raised |-> None, value |-> handlers[s] ]
         ELSE [ op |-> "getitem", arg |-> s, raised |-> "KeyError" ]
    /\ UNCHANGED << registry, default_content_type, request, instance, other >>

\* ContentSettings.__getitem__
GetItem(s) ==
    /\ last' =
         IF Lookup(s).raised = None
         THEN [ op |-> "getitem", arg |-> s, raised |-> None, value |-> Lookup(s).value ]
         ELSE [ op |-> "getitem", arg |-> s, raised |-> Lookup(s).raised ]
    /\ UNCHANGED << registry, default_content_type, request, instance, other >>

(***************************************************************************)
(* The application functions and ContentMixin.                             *)
(***************************************************************************)

\* The registrations of an application: add_text_content_type for JSON,
\* add_binary_content_type for MessagePack, add_transcoder for the others,
\* the FakeContentHandler of the tests among them.
Registrable ==
    { << "application/json", "json" >>,
      << "application/msgpack", "msgpack" >>,
      << "application/json", "fake" >>,
      << "application/json; charset=utf-8", "fake" >> }

\* add_transcoder(application, t, s)
AddTranscoder(t, s) ==
    /\ ForceInstance
    /\ SetItem(s, t)

\* handlers.TextContentHandler(content_type, dumps, loads, default_encoding):
\* the handler keeps the content type it is built with.
TextContentHandler(content_type, t) ==
    [ content_type |-> content_type, transcoder |-> t ]

\* add_text_content_type without parsed.parameters.pop('charset', None).
AddTextContentTypeKeepCharset(s, t) ==
    IF Malformed(s)
    THEN /\ last' = [ op |-> "add_text_content_type", arg |-> s,
                      raised |-> "ValueError" ]
         /\ UNCHANGED << registry, default_content_type, request, instance, other >>
    ELSE LET parsed == ParseContentType(s)
             handler == TextContentHandler(Str(parsed), t)
             content_type == Str(ParseContentType(handler.content_type))
         IN /\ Len(calls) < MaxCalls
            /\ ForceInstance
            /\ calls' = Append(calls, << handler.content_type, handler.transcoder >>)
            /\ last' = [ op |-> "add_text_content_type", arg |-> s, raised |-> None,
                         content_type |-> handler.content_type,
                         transcoder |-> handler.transcoder ]
            /\ IF content_type \in DOMAIN handlers
               THEN UNCHANGED << handlers, available >>
               ELSE /\ available' = Append(available, ParseContentType(handler.content_type))
                    /\ handlers' = DictSet(handlers, content_type, handler.transcoder)
            /\ UNCHANGED << default_content_type, request, other >>

\* add_text_content_type(application, s, default_encoding, dumps, loads):
\* the charset parameter is taken out of the parsed type, the handler is
\* built with the string of what is left, and add_transcoder registers it
\* under its own content_type.
AddTextContentType(s, t) ==
    IF Malformed(s)
    THEN /\ last' = [ op |-> "add_text_content_type", arg |-> s,
                      raised |-> "ValueError" ]
         /\ UNCHANGED << registry, default_content_type, request, instance, other >>
    ELSE LET parsed == ParseContentType(s)
             normalized == Str([ parsed EXCEPT !.parameters = DictPop(@, "charset") ])
             handler == TextContentHandler(normalized, t)
             content_type == Str(ParseContentType(handler.content_type))
         IN /\ Len(calls) < MaxCalls
            /\ ForceInstance
            /\ calls' = Append(calls, << handler.content_type, handler.transcoder >>)
            /\ last' = [ op |-> "add_text_content_type", arg |-> s, raised |-> None,
                         content_type |-> handler.content_type,
                         transcoder |-> handler.transcoder ]
            /\ IF content_type \in DOMAIN handlers
               THEN UNCHANGED << handlers, available >>
               ELSE /\ available' = Append(available, ParseContentType(handler.content_type))
                    /\ handlers' = DictSet(handlers, content_type, handler.transcoder)
            /\ UNCHANGED << default_content_type, request, other >>

\* set_default_content_type(application, s, encoding)
SetDefaultContentType(s, encoding) ==
    /\ installed' = TRUE
    /\ constructed' = IF installed THEN constructed ELSE constructed + 1
    /\ default_content_type' = s
    /\ default_encoding' = encoding
    /\ last' = [ op |-> "set_default_content_type", arg |-> s,
                 encoding |-> encoding ]
    /\ UNCHANGED << registry, request, other >>

\* settings.default_content_type = None, as the tests do
ClearDefaultContentType ==
    /\ default_content_type # None
    /\ default_content_type' = None
    /\ last' = [ op |-> "clear_default_content_type" ]
    /\ UNCHANGED << registry, request, instance, other >>

\* A handler is created for a new request and ContentMixin.initialize runs.
Initialize(h, b) ==
    /\ headers' = h
    /\ body' = b
    /\ best_response_match' = None
    /\ request_body' = None
    /\ response' = NoResponse
    /\ returned' = << >>
    /\ failed' = FALSE
    /\ last' = [ op |-> "initialize" ]
    /\ UNCHANGED << registry, default_content_type, instance, other >>

\* handler.request.headers[name] = value
SetRequestHeader(name, value) ==
    /\ ~(name \in DOMAIN headers /\ headers[name] = value)
    /\ headers' = DictSet(headers, name, value)
    /\ last' = [ op |-> "set_request_header", arg |-> name ]
    /\ UNCHANGED << registry, default_content_type, body, best_response_match,
                    request_body, response, returned, failed, instance, other >>

\* handler.request.headers.pop(name)
PopRequestHeader(name) ==
    /\ name \in DOMAIN headers
    /\ headers' = DictPop(headers, name)
    /\ last' = [ op |-> "pop_request_header", arg |-> name ]
    /\ UNCHANGED << registry, default_content_type, body, best_response_match,
                    request_body, response, returned, failed, instance, other >>

\* The string handed to parse_accept if the default content type were not
\* looked at.
AcceptValueWildcard ==
    IF "Accept" \in DOMAIN headers THEN headers["Accept"] ELSE "*/*"

\* The string get_response_content_type hands to parse_accept.
AcceptValue ==
    IF "Accept" \in DOMAIN headers THEN headers["Accept"]
    ELSE IF default_content_type \notin {None, ""} THEN default_content_type
    ELSE "*/*"

\* get_response_content_type that answers NoMatch with the first registered
\* type instead of the default content type.
ResponseContentTypeFirstAvailable ==
    IF best_response_match # None
    THEN [ raised |-> None, value |-> best_response_match,
           cache |-> best_response_match, computed |-> FALSE ]
    ELSE IF AcceptMalformed(AcceptValue)
    THEN [ raised |-> "ValueError", cache |-> best_response_match, computed |-> TRUE ]
    ELSE LET result(match) == IF match.raised = None THEN TypeString(match.selected)
                              ELSE IF available # << >> THEN TypeString(available[1])
                              ELSE default_content_type
         IN CHOOSE r \in
              { [ raised |-> None, value |-> result(m), cache |-> result(m),
                  computed |-> TRUE ] :
                  m \in { SelectContentType(acceptable, available) :
                            acceptable \in {ParseAccept(AcceptValue)} } } : TRUE

\* What one call of get_response_content_type does: the exception or the
\* value returned, and the value of _best_response_match afterwards.
ResponseContentType ==
    IF best_response_match # None
    THEN [ raised |-> None, value |-> best_response_match,
           cache |-> best_response_match, computed |-> FALSE ]
    ELSE IF AcceptMalformed(AcceptValue)
    THEN [ raised |-> "ValueError", cache |-> best_response_match, computed |-> TRUE ]
    ELSE LET result(match) == IF match.raised = None THEN TypeString(match.selected)
                              ELSE default_content_type
         IN CHOOSE r \in
              { [ raised |-> None, value |-> result(m), cache |-> result(m),
                  computed |-> TRUE ] :
                  m \in { SelectContentType(acceptable, available) :
                            acceptable \in {ParseAccept(AcceptValue)} } } : TRUE

\* The history of first results with the result of a call of getter g added.
Returned(g, result) ==
    IF result.raised = None /\ g \notin DOMAIN returned
    THEN DictSet(returned, g, result.value)
    ELSE returned

\* ContentMixin.get_response_content_type
GetResponseContentType ==
    \E result \in {ResponseContentType} :
    /\ best_response_match' = result.cache
    /\ returned' = Returned("get_response_content_type", result)
    /\ last' = [ op |-> "get_response_content_type", result |-> result,
                 accept |-> AcceptValue ]
    /\ ForceInstance
    /\ UNCHANGED << registry, default_content_type, headers, body, request_body,
                    response, failed, other >>

\* send_response that sets Content-Type to the negotiated response type
\* instead of the content type to_bytes returned.
SendResponseNegotiatedType(v, set_content_type) ==
    \E negotiated \in {ResponseContentType} :
    LET handler == Lookup(negotiated.value)
        raised ==
            IF negotiated.raised # None THEN negotiated.raised
            ELSE IF negotiated.value \in {None, ""} THEN "HTTPError 415"
            ELSE handler.raised
        encoded == ToBytes(handler.value, v)
    IN
    /\ Len(response.written) < MaxWrites
    /\ best_response_match' = negotiated.cache
    /\ returned' = Returned("get_response_content_type", negotiated)
    /\ response' =
         IF raised # None THEN response
         ELSE [ content_type |-> IF set_content_type THEN negotiated.value
                                 ELSE response.content_type,
                vary |-> IF set_content_type THEN Append(response.vary, "Accept")
                         ELSE response.vary,
                written |-> Append(response.written, encoded.data) ]
    /\ last' = [ op |-> "send_response", raised |-> raised, negotiated |-> negotiated,
                 accept |-> AcceptValue, set_content_type |-> set_content_type,
                 value |-> v,
                 transcoder |-> IF raised = None THEN handler.value ELSE None ]
    /\ ForceInstance
    /\ UNCHANGED << registry, default_content_type, headers, body, request_body,
                    failed, other >>

\* ContentMixin.send_response(v, set_content_type)
SendResponse(v, set_content_type) ==
    \E negotiated \in {ResponseContentType} :
    LET handler == Lookup(negotiated.value)
        raised ==
            IF negotiated.raised # None THEN negotiated.raised
            ELSE IF negotiated.value \in {None, ""} THEN "HTTPError 415"
            ELSE handler.raised
        encoded == ToBytes(handler.value, v)
    IN
    /\ Len(response.written) < MaxWrites
    /\ best_response_match' = negotiated.cache
    /\ returned' = Returned("get_response_content_type", negotiated)
    /\ response' =
         IF raised # None THEN response
         ELSE [ content_type |-> IF set_content_type THEN encoded.content_type
                                 ELSE response.content_type,
                vary |-> IF set_content_type THEN Append(response.vary, "Accept")
                         ELSE response.vary,
                written |-> Append(response.written, encoded.data) ]
    /\ last' = [ op |-> "send_response", raised |-> raised, negotiated |-> negotiated,
                 accept |-> AcceptValue, set_content_type |-> set_content_type,
                 value |-> v,
                 transcoder |-> IF raised = None THEN handler.value ELSE None ]
    /\ ForceInstance
    /\ UNCHANGED << registry, default_content_type, headers, body, request_body,
                    failed, other >>

\* The string get_request_body hands to parse_content_type.
ContentTypeValue ==
    IF "Content-Type" \in DOMAIN headers THEN headers["Content-Type"]
    ELSE default_content_type

\* What one call of get_request_body does: the exception or the value
\* returned, and the value of _request_body afterwards.
RequestBody ==
    IF request_body # None
    THEN [ raised |-> None, value |-> request_body, cache |-> request_body,
           decoded |-> FALSE ]
    ELSE IF ContentTypeValue = None
    THEN [ raised |-> "TypeError", cache |-> request_body, decoded |-> FALSE ]
    ELSE IF Malformed(ContentTypeValue)
    THEN [ raised |-> "ValueError", cache |-> request_body, decoded |-> FALSE ]
    ELSE LET content_type == TypeString(ParseContentType(ContentTypeValue))
             handler == Lookup(content_type)
         IN IF handler.raised = "KeyError"
            THEN [ raised |-> "HTTPError 415", cache |-> request_body,
                   decoded |-> FALSE ]
            ELSE IF handler.raised # None
            THEN [ raised |-> handler.raised, cache |-> request_body,
                   decoded |-> FALSE ]
            ELSE IF FromBytes(handler.value, body).raised # None
            THEN [ raised |-> "HTTPError 400", cache |-> request_body,
                   decoded |-> TRUE, transcoder |-> handler.value ]
            ELSE [ raised |-> None, value |-> FromBytes(handler.value, body).value,
                   cache |-> FromBytes(handler.value, body).value,
                   decoded |-> TRUE, transcoder |-> handler.value ]

\* get_request_body that assigns self.request.body to _request_body before
\* it decodes: a call that does not get to from_bytes, or whose from_bytes
\* raises, leaves the bytes there.
GetRequestBodyKeepsBytes ==
    \E result \in {RequestBody} :
    /\ request_body' = IF result.raised \in { "HTTPError 415", "HTTPError 400" }
                       THEN body ELSE result.cache
    /\ returned' = Returned("get_request_body", result)
    /\ failed' = (failed \/ result.raised \in { "HTTPError 415", "HTTPError 400" })
    /\ last' = [ op |-> "get_request_body", result |-> result,
                 content_type |-> ContentTypeValue, cached |-> request_body,
                 first |-> "get_request_body" \notin DOMAIN returned,
                 failed |-> failed ]
    /\ ForceInstance
    /\ UNCHANGED << registry, default_content_type, headers, body,
                    best_response_match, response, other >>

\* ContentMixin.get_request_body
GetRequestBody ==
    \E result \in {RequestBody} :
    /\ request_body' = result.cache
    /\ returned' = Returned("get_request_body", result)
    /\ failed' = (failed \/ result.raised \in { "HTTPError 415", "HTTPError 400" })
    /\ last' = [ op |-> "get_request_body", result |-> result,
                 content_type |-> ContentTypeValue, cached |-> request_body,
                 first |-> "get_request_body" \notin DOMAIN returned,
                 failed |-> failed ]
    /\ ForceInstance
    /\ UNCHANGED << registry, default_content_type, headers, body,
                    best_response_match, response, other >>

\* ContentSettings.get
Get(s, default) ==
    /\ last' = [ op |-> "get", arg |-> s, default |-> default,
                 value |-> IF s \in DOMAIN handlers THEN handlers[s] ELSE default ]
    /\ UNCHANGED << registry, default_content_type, request, instance, other >>

\* install that builds a new ContentSettings whether or not the application
\* has one.
InstallAnew(d, encoding) ==
    /\ installed' = TRUE
    /\ constructed' = constructed + 1
    /\ handlers' = << >>
    /\ available' = << >>
    /\ default_content_type' = d
    /\ default_encoding' = encoding
    /\ last' = [ op |-> "install", arg |-> d, encoding |-> encoding,
                 created |-> TRUE, instance |-> constructed + 1 ]
    /\ UNCHANGED << calls, request, other >>

\* install with the two assignments after the try statement: the defaults
\* of settings that exist are overwritten with the arguments.
InstallOverwritesDefaults(d, encoding) ==
    /\ installed' = TRUE
    /\ constructed' = IF installed THEN constructed ELSE constructed + 1
    /\ handlers' = IF installed THEN handlers ELSE << >>
    /\ available' = IF installed THEN available ELSE << >>
    /\ default_content_type' = d
    /\ default_encoding' = encoding
    /\ last' = [ op |-> "install", arg |-> d, encoding |-> encoding,
                 created |-> ~installed,
                 instance |-> IF installed THEN constructed ELSE constructed + 1 ]
    /\ UNCHANGED << calls, request, other >>

\* install(application, d, encoding): the settings of the application, built
\* with the default d and the encoding if the application has none.  The
\* instance returned is named by its number among those built.
Install(d, encoding) ==
    /\ installed' = TRUE
    /\ constructed' = IF installed THEN constructed ELSE constructed + 1
    /\ handlers' = IF installed THEN handlers ELSE << >>
    /\ available' = IF installed THEN available ELSE << >>
    /\ default_content_type' = IF installed THEN default_content_type ELSE d
    /\ default_encoding' = IF installed THEN default_encoding ELSE encoding
    /\ last' = [ op |-> "install", arg |-> d, encoding |-> encoding,
                 created |-> ~installed,
                 instance |-> IF installed THEN constructed ELSE constructed + 1 ]
    /\ UNCHANGED << calls, request, other >>

\* get_settings that, asked to force an instance, calls install without
\* looking for the settings and stores a new ContentSettings every time.
GetSettingsAlwaysBuilds(force_instance) ==
    /\ installed' = (installed \/ force_instance)
    /\ constructed' = IF force_instance THEN constructed + 1 ELSE constructed
    /\ default_encoding' = IF force_instance THEN None ELSE default_encoding
    /\ handlers' = IF force_instance THEN << >> ELSE handlers
    /\ available' = IF force_instance THEN << >> ELSE available
    /\ default_content_type' = IF force_instance THEN None ELSE default_content_type
    /\ last' = [ op |-> "get_settings", force_instance |-> force_instance,
                 result |-> IF installed \/ force_instance THEN "ContentSettings"
                            ELSE None,
                 created |-> force_instance,
                 instance |-> IF force_instance THEN constructed + 1
                              ELSE IF installed THEN constructed
                              ELSE None ]
    /\ UNCHANGED << calls, request, other >>

\* get_settings(application, force_instance): None without settings and
\* without force_instance, install(application, None) with it.
GetSettings(force_instance) ==
    /\ installed' = (installed \/ force_instance)
    /\ constructed' = IF installed \/ ~force_instance THEN constructed
                      ELSE constructed + 1
    /\ default_encoding' = IF installed \/ ~force_instance THEN default_encoding
                           ELSE None
    /\ handlers' = IF installed \/ ~force_instance THEN handlers ELSE << >>
    /\ available' = IF installed \/ ~force_instance THEN available ELSE << >>
    /\ default_content_type' =
         IF installed \/ ~force_instance THEN default_content_type ELSE None
    /\ last' = [ op |-> "get_settings", force_instance |-> force_instance,
                 result |-> IF installed \/ force_instance THEN "ContentSettings"
                            ELSE None,
                 created |-> ~installed /\ force_instance,
                 instance |-> IF installed THEN constructed
                              ELSE IF force_instance THEN constructed + 1
                              ELSE None ]
    /\ UNCHANGED << calls, request, other >>

\* Two handlers whose _best_response_match and _request_body are one pair
\* of attributes: the handler that runs next finds what the other stored.
SwitchSharingCaches ==
    /\ headers' = other.headers
    /\ body' = other.body
    /\ response' = other.response
    /\ returned' = other.returned
    /\ failed' = other.failed
    /\ other' = [ headers |-> headers, body |-> body,
                  best_response_match |-> best_response_match,
                  request_body |-> request_body,
                  response |-> response, returned |-> returned,
                  failed |-> failed ]
    /\ last' = [ op |-> "switch" ]
    /\ UNCHANGED << registry, default_content_type, instance,
                    best_response_match, request_body >>

\* The application goes on with its other handler: the attributes of a
\* handler are its own, the settings are the application's.
Switch ==
    /\ headers' = other.headers
    /\ body' = other.body
    /\ best_response_match' = other.best_response_match
    /\ request_body' = other.request_body
    /\ response' = other.response
    /\ returned' = other.returned
    /\ failed' = other.failed
    /\ other' = [ headers |-> headers, body |-> body,
                  best_response_match |-> best_response_match,
                  request_body |-> request_body,
                  response |-> response, returned |-> returned,
                  failed |-> failed ]
    /\ last' = [ op |-> "switch" ]
    /\ UNCHANGED << registry, default_content_type, instance >>

(***************************************************************************)
(* The MessagePack transcoder.  Bytes are the numbers 0..255, byte strings *)
(* are sequences of them, and an int is a sign and a magnitude in          *)
(* big-endian bytes without leading zeros, so that 64-bit values keep      *)
(* their width.                                                            *)
(***************************************************************************)

\* The values handed to packb and returned by unpackb, by Python type.
PyNone == [ type |-> "NoneType" ]
PyBool(flag) == [ type |-> "bool", flag |-> flag ]
PyInt(negative, magnitude) ==
    [ type |-> "int", negative |-> negative, magnitude |-> magnitude ]
PyStr(text) == [ type |-> "str", text |-> text ]
PyBytes(type, data) == [ type |-> type, data |-> data ]
PySequence(type, items) == [ type |-> type, items |-> items ]
PyDict(pairs) == [ type |-> "dict", pairs |-> pairs ]
PyUUID(text) == [ type |-> "UUID", str |-> text ]
PyDatetime(text) == [ type |-> "datetime", isoformat |-> text ]
PyObject == [ type |-> "object" ]

Zeros(n) == [ i \in 1..n |-> 0 ]

\* struct.pack of the length n in w bytes, big-endian.
BigEndian(n, w) == [ i \in 1..w |-> (n \div (256 ^ (w - i))) % 256 ]

\* The number a big-endian byte string of a length field stands for.
RECURSIVE Number(_)
Number(b) ==
    IF b = << >> THEN 0
    ELSE Number(SubSeq(b, 1, Len(b) - 1)) * 256 + b[Len(b)]

RECURSIVE StripZeros(_)
StripZeros(b) == IF b = << >> \/ b[1] # 0 THEN b ELSE StripZeros(Tail(b))

\* a < b for two magnitudes.
MagnitudeLt(a, b) ==
    \/ Len(a) < Len(b)
    \/ /\ Len(a) = Len(b)
       /\ \E i \in 1..Len(a) : a[i] < b[i] /\ \A j \in 1..(i - 1) : a[j] = b[j]

\* The magnitude of 2**k.
TwoTo(k) == << 2 ^ (k % 8) >> \o Zeros(k \div 8)

\* b - 1 and b + 1 in the width of b (b + 1 wraps).
RECURSIVE Decrement(_)
Decrement(b) ==
    IF b[Len(b)] > 0 THEN [ b EXCEPT ![Len(b)] = @ - 1 ]
    ELSE Append(Decrement(SubSeq(b, 1, Len(b) - 1)), 255)

RECURSIVE Increment(_)
Increment(b) ==
    IF b = << >> THEN b
    ELSE IF b[Len(b)] < 255 THEN [ b EXCEPT ![Len(b)] = @ + 1 ]
    ELSE Append(Increment(SubSeq(b, 1, Len(b) - 1)), 0)

Complement(b) == [ i \in 1..Len(b) |-> 255 - b[i] ]

\* struct.pack of a non-negative int in w bytes ('B', '>H', '>I', '>Q').
Unsigned(magnitude, w) == Zeros(w - Len(magnitude)) \o magnitude

\* struct.pack of the negative int -magnitude in w bytes ('b', '>h', '>i',
\* '>q'): two's complement.
Signed(magnitude, w) == Complement(Decrement(Unsigned(magnitude, w)))

Packed(data) == [ raised |-> None, data |-> data ]

\* The integer rule that has no uint8 form: 128..255 go out as uint16.
PackIntegerWithoutUint8(obj) ==
    IF obj.negative
    THEN IF ~MagnitudeLt(TwoTo(5), obj.magnitude)
         THEN Packed(Signed(obj.magnitude, 1))
         ELSE IF ~MagnitudeLt(TwoTo(7), obj.magnitude)
         THEN Packed(<< 208 >> \o Signed(obj.magnitude, 1))
         ELSE IF ~MagnitudeLt(TwoTo(15), obj.magnitude)
         THEN Packed(<< 209 >> \o Signed(obj.magnitude, 2))
         ELSE IF ~MagnitudeLt(TwoTo(31), obj.magnitude)
         THEN Packed(<< 210 >> \o Signed(obj.magnitude, 4))
         ELSE IF ~MagnitudeLt(TwoTo(63), obj.magnitude)
         THEN Packed(<< 211 >> \o Signed(obj.magnitude, 8))
         ELSE [ raised |-> "UnsupportedTypeException" ]
    ELSE IF MagnitudeLt(obj.magnitude, TwoTo(7))
         THEN Packed(Unsigned(obj.magnitude, 1))
         ELSE IF MagnitudeLt(obj.magnitude, TwoTo(16))
         THEN Packed(<< 205 >> \o Unsigned(obj.magnitude, 2))
         ELSE IF MagnitudeLt(obj.magnitude, TwoTo(32))
         THEN Packed(<< 206 >> \o Unsigned(obj.magnitude, 4))
         ELSE IF MagnitudeLt(obj.magnitude, TwoTo(64))
         THEN Packed(<< 207 >> \o Unsigned(obj.magnitude, 8))
         ELSE [ raised |-> "UnsupportedTypeException" ]

\* Integers: positive fixint, negative fixint, or the narrowest of the
\* unsigned forms (0xCC..0xCF) and of the signed forms (0xD0..0xD3).
PackInteger(obj) ==
    IF obj.negative
    THEN IF ~MagnitudeLt(TwoTo(5), obj.magnitude)
         THEN Packed(Signed(obj.magnitude, 1))
         ELSE IF ~MagnitudeLt(TwoTo(7), obj.magnitude)
         THEN Packed(<< 208 >> \o Signed(obj.magnitude, 1))
         ELSE IF ~MagnitudeLt(TwoTo(15), obj.magnitude)
         THEN Packed(<< 209 >> \o Signed(obj.magnitude, 2))
         ELSE IF ~MagnitudeLt(TwoTo(31), obj.magnitude)
         THEN Packed(<< 210 >> \o Signed(obj.magnitude, 4))
         ELSE IF ~MagnitudeLt(TwoTo(63), obj.magnitude)
         THEN Packed(<< 211 >> \o Signed(obj.magnitude, 8))
         ELSE [ raised |-> "UnsupportedTypeException" ]
    ELSE IF MagnitudeLt(obj.magnitude, TwoTo(7))
         THEN Packed(Unsigned(obj.magnitude, 1))
         ELSE IF MagnitudeLt(obj.magnitude, TwoTo(8))
         THEN Packed(<< 204 >> \o Unsigned(obj.magnitude, 1))
         ELSE IF MagnitudeLt(obj.magnitude, TwoTo(16))
         THEN Packed(<< 205 >> \o Unsigned(obj.magnitude, 2))
         ELSE IF MagnitudeLt(obj.magnitude, TwoTo(32))
         THEN Packed(<< 206 >> \o Unsigned(obj.magnitude, 4))
         ELSE IF MagnitudeLt(obj.magnitude, TwoTo(64))
         THEN Packed(<< 207 >> \o Unsigned(obj.magnitude, 8))
         ELSE [ raised |-> "UnsupportedTypeException" ]

\* Strings: fixstr, str8, str16 or str32 by the length of the UTF-8 bytes.
PackString(text) ==
    IF Len(text) < 32 THEN << 160 + Len(text) >> \o text
    ELSE IF Len(text) < 256 THEN << 217, Len(text) >> \o text
    ELSE IF Len(text) < 65536 THEN << 218 >> \o BigEndian(Len(text), 2) \o text
    ELSE << 219 >> \o BigEndian(Len(text), 4) \o text

\* Byte buffers sent the way strings are, as raw bytes without a type of
\* their own.
PackBinaryAsString(data) == PackString(data)

\* Byte buffers: bin8, bin16 or bin32 by length.
PackBinary(data) ==
    IF Len(data) < 256 THEN << 196, Len(data) >> \o data
    ELSE IF Len(data) < 65536 THEN << 197 >> \o BigEndian(Len(data), 2) \o data
    ELSE << 198 >> \o BigEndian(Len(data), 4) \o data

\* The head of an array of n elements and of a map of n pairs.
ArrayHeader(n) ==
    IF n < 16 THEN << 144 + n >>
    ELSE IF n < 65536 THEN << 220 >> \o BigEndian(n, 2)
    ELSE << 221 >> \o BigEndian(n, 4)

MapHeader(n) ==
    IF n < 16 THEN << 128 + n >>
    ELSE IF n < 65536 THEN << 222 >> \o BigEndian(n, 2)
    ELSE << 223 >> \o BigEndian(n, 4)

\* acc followed by what was packed next, or the exception of either.
Join(acc, p) ==
    IF acc.raised # None THEN acc
    ELSE IF p.raised # None THEN p
    ELSE Packed(acc.data \o p.data)

RECURSIVE Pack(_)
RECURSIVE PackItems(_, _)
RECURSIVE PackPairs(_, _)

\* The elements of an array, one after the other.
PackItems(items, acc) ==
    IF items = << >> \/ acc.raised # None THEN acc
    ELSE PackItems(Tail(items), Join(acc, Pack(Head(items))))

\* The pairs of a map: key, then value.
PackPairs(pairs, acc) ==
    IF pairs = << >> \/ acc.raised # None THEN acc
    ELSE PackPairs(Tail(pairs),
                   Join(Join(acc, Pack(Head(pairs)[1])), Pack(Head(pairs)[2])))

\* The encoder: the bytes of a normalized value.
Pack(obj) ==
    CASE obj.type = "NoneType" -> Packed(<< 192 >>)
      [] obj.type = "bool" -> Packed(IF obj.flag THEN << 195 >> ELSE << 194 >>)
      [] obj.type = "int" -> PackInteger(obj)
      [] obj.type = "str" -> Packed(PackString(obj.text))
      [] obj.type = "bytes" -> Packed(PackBinary(obj.data))
      [] obj.type = "list" ->
           PackItems(obj.items, Packed(ArrayHeader(Len(obj.items))))
      [] obj.type = "dict" ->
           PackPairs(obj.pairs, Packed(MapHeader(Len(obj.pairs))))
      [] OTHER -> [ raised |-> "UnsupportedTypeException" ]

Normalized(value) == [ raised |-> None, value |-> value ]

RECURSIVE NormalizeDatum(_)
RECURSIVE NormalizeItems(_, _)
RECURSIVE NormalizePairs(_, _)

\* The elements of a sequence or a set, normalized in iteration order.
NormalizeItems(items, acc) ==
    IF items = << >> \/ acc.raised # None THEN acc
    ELSE NormalizeItems(Tail(items),
           IF NormalizeDatum(Head(items)).raised # None
           THEN NormalizeDatum(Head(items))
           ELSE Normalized(Append(acc.value, NormalizeDatum(Head(items)).value)))

\* The values of a mapping, normalized under their keys.
NormalizePairs(pairs, acc) ==
    IF pairs = << >> \/ acc.raised # None THEN acc
    ELSE NormalizePairs(Tail(pairs),
           IF NormalizeDatum(Head(pairs)[2]).raised # None
           THEN NormalizeDatum(Head(pairs)[2])
           ELSE Normalized(Append(acc.value,
                  << Head(pairs)[1], NormalizeDatum(Head(pairs)[2]).value >>)))

\* What the transcoder makes of a value before it is packed: identifiers
\* and timestamps become strings, every byte buffer bytes, every sequence
\* and set a list; a value of another type is a TypeError.
NormalizeDatum(datum) ==
    CASE datum.type \in { "NoneType", "bool", "int", "str", "bytes" } ->
           Normalized(datum)
      [] datum.type = "UUID" -> Normalized(PyStr(datum.str))
      [] datum.type \in { "bytearray", "memoryview" } ->
           Normalized(PyBytes("bytes", datum.data))
      [] datum.type = "datetime" -> Normalized(PyStr(datum.isoformat))
      [] datum.type \in { "list", "tuple", "set" } ->
           IF NormalizeItems(datum.items, Normalized(<< >>)).raised # None
           THEN NormalizeItems(datum.items, Normalized(<< >>))
           ELSE Normalized(PySequence("list",
                  NormalizeItems(datum.items, Normalized(<< >>)).value))
      [] datum.type = "dict" ->
           IF NormalizePairs(datum.pairs, Normalized(<< >>)).raised # None
           THEN NormalizePairs(datum.pairs, Normalized(<< >>))
           ELSE Normalized(PyDict(
                  NormalizePairs(datum.pairs, Normalized(<< >>)).value))
      [] OTHER -> [ raised |-> "TypeError" ]

Unpacked(value, rest) == [ raised |-> None, value |-> value, rest |-> rest ]

InsufficientData == [ raised |-> "InsufficientDataException" ]

\* The payload of n bytes after a length field of w bytes, as a string or
\* as bytes.
UnpackPayload(type, n, data) ==
    IF Len(data) < n THEN InsufficientData
    ELSE IF type = "str"
    THEN Unpacked(PyStr(SubSeq(data, 1, n)), SubSeq(data, n + 1, Len(data)))
    ELSE Unpacked(PyBytes("bytes", SubSeq(data, 1, n)),
                  SubSeq(data, n + 1, Len(data)))

\* An int of w bytes, unsigned or in two's complement.
UnpackInteger(signed, w, data) ==
    IF Len(data) < w THEN InsufficientData
    ELSE IF signed /\ data[1] >= 128
    THEN Unpacked(PyInt(TRUE, StripZeros(Increment(Complement(SubSeq(data, 1, w))))),
                  SubSeq(data, w + 1, Len(data)))
    ELSE Unpacked(PyInt(FALSE, StripZeros(SubSeq(data, 1, w))),
                  SubSeq(data, w + 1, Len(data)))

RECURSIVE Unpack(_)
RECURSIVE UnpackItems(_, _, _)
RECURSIVE UnpackPairs(_, _, _)

\* The n elements of an array from the bytes that follow its head.
UnpackItems(n, data, items) ==
    IF n = 0 THEN Unpacked(PySequence("list", items), data)
    ELSE IF Unpack(data).raised # None THEN Unpack(data)
    ELSE UnpackItems(n - 1, Unpack(data).rest, Append(items, Unpack(data).value))

\* The n pairs of a map from the bytes that follow its head.
UnpackPairs(n, data, pairs) ==
    IF n = 0 THEN Unpacked(PyDict(pairs), data)
    ELSE IF Unpack(data).raised # None THEN Unpack(data)
    ELSE IF Unpack(Unpack(data).rest).raised # None THEN Unpack(Unpack(data).rest)
    ELSE UnpackPairs(n - 1, Unpack(Unpack(data).rest).rest,
                     Append(pairs, << Unpack(data).value,
                                      Unpack(Unpack(data).rest).value >>))

\* The length field of w bytes at the start of data, then what it counts.
UnpackCounted(type, w, data) ==
    IF Len(data) < w THEN InsufficientData
    ELSE IF type = "list"
    THEN UnpackItems(Number(SubSeq(data, 1, w)), SubSeq(data, w + 1, Len(data)), << >>)
    ELSE IF type = "dict"
    THEN UnpackPairs(Number(SubSeq(data, 1, w)), SubSeq(data, w + 1, Len(data)), << >>)
    ELSE UnpackPayload(type, Number(SubSeq(data, 1, w)),
                       SubSeq(data, w + 1, Len(data)))

\* The decoder: reads the tag byte and the family it names; gives the
\* value and the bytes left over.  The float and ext families carry no
\* value of this model.
Unpack(data) ==
    IF data = << >> THEN InsufficientData
    ELSE CASE data[1] < 128 ->
                Unpacked(PyInt(FALSE, StripZeros(<< data[1] >>)), Tail(data))
           [] data[1] >= 224 ->
                Unpacked(PyInt(TRUE, << 256 - data[1] >>), Tail(data))
           [] data[1] \in 128..143 -> UnpackPairs(data[1] - 128, Tail(data), << >>)
           [] data[1] \in 144..159 -> UnpackItems(data[1] - 144, Tail(data), << >>)
           [] data[1] \in 160..191 -> UnpackPayload("str", data[1] - 160, Tail(data))
           [] data[1] = 192 -> Unpacked(PyNone, Tail(data))
           [] data[1] = 193 -> [ raised |-> "ReservedCodeException" ]
           [] data[1] = 194 -> Unpacked(PyBool(FALSE), Tail(data))
           [] data[1] = 195 -> Unpacked(PyBool(TRUE), Tail(data))
           [] data[1] \in 196..198 ->
                UnpackCounted("bytes", 2 ^ (data[1] - 196), Tail(data))
           [] data[1] \in 204..207 ->
                UnpackInteger(FALSE, 2 ^ (data[1] - 204), Tail(data))
           [] data[1] \in 208..211 ->
                UnpackInteger(TRUE, 2 ^ (data[1] - 208), Tail(data))
           [] data[1] \in 217..219 ->
                UnpackCounted("str", 2 ^ (data[1] - 217), Tail(data))
           [] data[1] \in 220..221 ->
                UnpackCounted("list", 2 ^ (data[1] - 219), Tail(data))
           [] data[1] \in 222..223 ->
                UnpackCounted("dict", 2 ^ (data[1] - 221), Tail(data))

\* tests.pack_string: the bytes the tests expect for an ASCII string.
pack_string(payload) ==
    IF Len(payload) < 2 ^ 5 THEN << 160 + Len(payload) >> \o payload
    ELSE IF Len(payload) < 2 ^ 8 THEN << 217, Len(payload) >> \o payload
    ELSE IF Len(payload) < 2 ^ 16
    THEN << 218 >> \o BigEndian(Len(payload), 2) \o payload
    ELSE << 219 >> \o BigEndian(Len(payload), 4) \o payload

\* tests.pack_bytes: the bytes the tests expect for a byte string.
pack_bytes(payload) ==
    IF Len(payload) < 2 ^ 8 THEN << 196, Len(payload) >> \o payload
    ELSE IF Len(payload) < 2 ^ 16
    THEN << 197 >> \o BigEndian(Len(payload), 2) \o payload
    ELSE << 198 >> \o BigEndian(Len(payload), 4) \o payload

\* MsgPackTranscoder.packb(datum): the datum normalized, then packed.
Packb(datum) ==
    \E normalized \in { NormalizeDatum(datum) } :
    \E result \in { IF normalized.raised # None THEN normalized
                    ELSE Pack(normalized.value) } :
    /\ last' = [ op |-> "packb", datum |-> datum, result |-> result ]
    /\ UNCHANGED << registry, default_content_type, request, instance, other >>

\* MsgPackTranscoder.unpackb(data), for the bytes packb has just returned.
Unpackb ==
    /\ last.op = "packb"
    /\ last.result.raised = None
    /\ \E result \in { Unpack(last.result.data) } :
         last' = [ op |-> "unpackb", datum |-> last.datum,
                   data |-> last.result.data, result |-> result ]
    /\ UNCHANGED << registry, default_content_type, request, instance, other >>

(***************************************************************************)
(* Specifications.                                                         *)
(***************************************************************************)

\* The transcoder objects the registry is exercised with.
RegistryTranscoders == { "json", "msgpack" }

\* The registry alone: registrations and lookups with every string.
Next ==
    \/ \E s \in RegistryStrings, t \in RegistryTranscoders :
          SetItem(s, t) /\ UNCHANGED instance
    \/ \E s \in RegistryStrings : GetItem(s)

Spec == Init /\ [][Next]_vars

\* The headers of the requests of the negotiation.
NegotiationRequests ==
    { << >> } \cup { [ n \in {"Accept"} |-> a ] : a \in AcceptHeaders }

\* Response negotiation: an application that registers transcoders and sets
\* its default, and the handler of one request at a time.
NextNegotiation ==
    \/ \E r \in Registrable : AddTranscoder(r[2], r[1])
    \/ \E s \in DefaultContentTypes : SetDefaultContentType(s, None)
    \/ ClearDefaultContentType
    \/ \E h \in NegotiationRequests : Initialize(h, "{}")
    \/ \E a \in AcceptHeaders : SetRequestHeader("Accept", a)
    \/ PopRequestHeader("Accept")
    \/ GetResponseContentType
    \/ \E v \in Values, set_content_type \in BOOLEAN : SendResponse(v, set_content_type)

SpecNegotiation == Init /\ [][NextNegotiation]_vars

\* The headers of the requests of the decoding.
DecodingRequests ==
    { << >> } \cup { [ n \in {"Content-Type"} |-> c ] : c \in ContentTypeHeaders }

\* Request decoding: the same application, and the handler of one request
\* at a time.
NextDecoding ==
    \/ \E r \in Registrable : AddTranscoder(r[2], r[1])
    \/ \E s \in DefaultContentTypes : SetDefaultContentType(s, None)
    \/ ClearDefaultContentType
    \/ \E h \in DecodingRequests, b \in Bodies : Initialize(h, b)
    \/ \E c \in ContentTypeHeaders : SetRequestHeader("Content-Type", c)
    \/ PopRequestHeader("Content-Type")
    \/ GetRequestBody

SpecDecoding == Init /\ [][NextDecoding]_vars

\* The strings the application looks up.
LookupStrings == { "application/json", "application/msgpack" }

\* The default content types of the application as a whole.
ApplicationDefaults == { "application/json" }

\* The requests the application as a whole is exercised with.
ApplicationRequests ==
    { ("Accept" :> "application/xml") @@ ("Content-Type" :> "application/json"),
      ("Accept" :> "*/*") @@ ("Content-Type" :> "application/msgpack") }

\* Every operation of the module on one application: the settings are
\* installed, fetched, filled and read, and one handler at a time decodes a
\* request and sends a response.
NextApplication ==
    \/ \E d \in ApplicationDefaults \cup {None} : Install(d, None)
    \/ \E force_instance \in BOOLEAN : GetSettings(force_instance)
    \/ \E r \in Registrable : AddTranscoder(r[2], r[1])
    \/ \E s \in ApplicationDefaults : SetDefaultContentType(s, None)
    \/ \E s \in LookupStrings : installed /\ GetItem(s)
    \/ \E s \in LookupStrings : installed /\ Get(s, None)
    \/ \E h \in ApplicationRequests : Initialize(h, "{}")
    \/ GetResponseContentType
    \/ GetRequestBody
    \/ \E v \in Values : SendResponse(v, TRUE)

SpecApplication == Init /\ [][NextApplication]_vars

\* The registrations, defaults and requests the selection of the response
\* type is exercised with.
SelectionRegistrable ==
    { << "application/json", "json" >>,
      << "application/msgpack", "msgpack" >>,
      << "application/json; charset=utf-8", "fake" >>,
      << "text/xml", "fake" >> }

SelectionDefaults ==
    { "application/json", "application/msgpack", "application/json; charset=utf-8" }

SelectionHeaders ==
    { "*/*",
      "application/*, application/msgpack;q=0.5",
      "*/*, text/*;q=0.8",
      "application/json;q=0.8, application/msgpack;q=0.5" }

SelectionRequests ==
    { << >> } \cup { [ n \in {"Accept"} |-> a ] : a \in SelectionHeaders }

\* The selection of the response type: applications that differ in what
\* they register, in which order, and in their default, and requests that
\* differ in their Accept header, each asked for its response type.
NextSelection ==
    \/ \E r \in SelectionRegistrable : AddTranscoder(r[2], r[1])
    \/ \E s \in SelectionDefaults : SetDefaultContentType(s, None)
    \/ \E h \in SelectionRequests : Initialize(h, "{}")
    \/ GetResponseContentType

SpecSelection == Init /\ [][NextSelection]_vars

\* The transcoders and the requests of an application that has two
\* handlers at work.
TwoRegistrable ==
    { << "application/json", "json" >>, << "application/msgpack", "msgpack" >> }

TwoRequests ==
    { ("Accept" :> "application/json") @@ ("Content-Type" :> "application/json"),
      ("Accept" :> "application/msgpack") @@ ("Content-Type" :> "application/msgpack") }

\* Two requests handled against one application, their calls interleaved
\* in every way.
NextTwoRequests ==
    \/ \E r \in TwoRegistrable : AddTranscoder(r[2], r[1])
    \/ \E h \in TwoRequests : Initialize(h, "{}")
    \/ Switch
    \/ GetResponseContentType
    \/ GetRequestBody

SpecTwoRequests == Init /\ [][NextTwoRequests]_vars

\* The content types handed to add_text_content_type and the strings
\* looked up afterwards.
TextContentTypes ==
    { "application/json",
      "application/json; charset=UTF-8",
      "application/json; charset=UTF-8; version=foo",
      "application/json; type=WhatEver; version=foo",
      "application" }

TextLookups ==
    { "application/json",
      "application/json; charset=utf-8",
      "application/json; version=foo",
      "application/json; type=whatever; version=foo" }

\* Text content types registered by add_text_content_type and looked up in
\* the settings of the application once it has them.
NextText ==
    \/ \E s \in TextContentTypes, t \in RegistryTranscoders : AddTextContentType(s, t)
    \/ \E s \in TextLookups : installed /\ GetItem(s)

SpecText == Init /\ [][NextText]_vars

\* The defaults, encodings and registrations the settings of an application
\* are installed and changed with.
SettingsDefaults == { "application/json", "application/msgpack" }

Encodings == { "utf8", "latin1" }

SettingsRegistrable ==
    { << "application/json", "json" >>, << "application/msgpack", "msgpack" >> }

SettingsTextTypes == { "application/json; charset=UTF-8", "application" }

\* The settings of one application under every function that reads or
\* creates them, called in any order, with a handler that negotiates.
NextSettings ==
    \/ \E d \in SettingsDefaults \cup {None}, encoding \in Encodings \cup {None} :
          Install(d, encoding)
    \/ \E force_instance \in BOOLEAN : GetSettings(force_instance)
    \/ \E r \in SettingsRegistrable : AddTranscoder(r[2], r[1])
    \/ \E s \in SettingsTextTypes : AddTextContentType(s, "json")
    \/ \E s \in SettingsDefaults, encoding \in Encodings \cup {None} :
          SetDefaultContentType(s, encoding)
    \/ ClearDefaultContentType
    \/ \E s \in LookupStrings : installed /\ GetItem(s)
    \/ GetResponseContentType

SpecSettings == Init /\ [][NextSettings]_vars

\* The defaults handed to ContentSettings.get.
GetDefaults == { None, "fake" }

\* The strings registered and looked up with both operations: normalized
\* ones, one that its normalization changes, and one never registered.
GetRegistered ==
    { "application/json", "application/json; charset=UTF-8", "application/msgpack" }

GetStrings == GetRegistered \cup { "application/xml" }

\* The registry under its two lookup operations.
NextLookup ==
    \/ \E s \in GetRegistered, t \in RegistryTranscoders :
          SetItem(s, t) /\ UNCHANGED instance
    \/ \E s \in GetStrings : GetItem(s)
    \/ \E s \in GetStrings, default \in GetDefaults : Get(s, default)

SpecLookup == Init /\ [][NextLookup]_vars

\* The ints packed: zero, the ends of the fixint ranges, and every power of
\* two at which the form changes, with its two neighbours, of both signs.
IntegerMagnitudes ==
    { << >>, << 1 >>, << 31 >>, << 32 >>, << 33 >>, << 127 >>, << 128 >>, << 129 >> }
    \cup { TwoTo(k) : k \in { 8, 15, 16, 31, 32, 63, 64 } }
    \cup { StripZeros(Decrement(TwoTo(k))) : k \in { 8, 15, 16, 31, 32, 63, 64 } }
    \cup { Increment(TwoTo(k)) : k \in { 8, 15, 16, 31, 32, 63, 64 } }

IntegerValues ==
    { PyInt(FALSE, m) : m \in IntegerMagnitudes }
    \cup { PyInt(TRUE, m) : m \in IntegerMagnitudes \ { << >> } }

\* ASCII text and arbitrary bytes of n bytes; 'foo', 'one' and 'two'.
Text(n) == [ i \in 1..n |-> 97 + (i % 26) ]
Bytes(n) == [ i \in 1..n |-> (i * 37) % 256 ]
Foo == << 102, 111, 111 >>
One == << 111, 110, 101 >>
Two == << 116, 119, 111 >>

\* str(uuid.uuid4()) and datetime.isoformat(), naive and with the offset
\* of UTC.
UUIDText == [ i \in 1..36 |-> IF i \in { 9, 14, 19, 24 } THEN 45 ELSE 48 + (i % 10) ]
IsoformatText == [ i \in 1..26 |-> 48 + (i % 10) ]
IsoformatUTCText == IsoformatText \o << 43, 48, 48, 58, 48, 48 >>

ScalarValues ==
    { PyNone, PyBool(FALSE), PyBool(TRUE), PyObject,
      PyUUID(UUIDText), PyDatetime(IsoformatText), PyDatetime(IsoformatUTCText) }
    \cup { PyStr(s) : s \in { << >>, Foo, Text(31), Text(32), Text(255), Text(256) } }
    \cup { PyBytes(type, Bytes(n)) : type \in { "bytes", "bytearray", "memoryview" },
                                     n \in { 0, 13, 127, 255, 256 } }

\* The elements of the sequences and sets packed, in iteration order.
ItemLists ==
    { << >>,
      << PyNone >>,
      << PyInt(FALSE, << 1 >>), PyStr(Foo),
         PySequence("tuple", << PyBool(TRUE), PyInt(TRUE, << 128 >>) >>) >>,
      << PyUUID(UUIDText), PyBytes("bytes", Bytes(13)) >>,
      [ i \in 1..16 |-> PyInt(FALSE, << i >>) ] }

ContainerValues ==
    { PySequence(type, items) : type \in { "list", "tuple", "set" }, items \in ItemLists }
    \cup { PySequence("list", << PyObject >>),
           PySequence("list", << PyBytes("bytearray", Bytes(13)),
                                 PySequence("set", << PyStr(Foo) >>),
                                 PyDict(<< << PyStr(One), PyBytes("memoryview", Foo) >> >>) >>),
           PyDict(<< >>),
           PyDict(<< << PyStr(One), PyStr(Two) >> >>),
           PyDict(<< << PyStr(One), PyObject >> >>),
           PyDict(<< << PyStr(One), PySequence("tuple", << PyInt(FALSE, TwoTo(32)),
                        PyDict(<< << PyStr(Two), PyBytes("bytearray", Foo) >> >>) >>) >>,
                     << PyStr(Two), PyDatetime(IsoformatText) >>,
                     << PyStr(Foo), PyUUID(UUIDText) >> >>),
           PyDict([ i \in 1..16 |-> << PyStr(Text(i)), PyInt(TRUE, << i >>) >> ]) }

MsgPackValues == IntegerValues \cup ScalarValues \cup ContainerValues

\* The MessagePack transcoder alone: values packed and the bytes unpacked.
NextMsgPack ==
    \/ \E datum \in MsgPackValues : Packb(datum)
    \/ Unpackb

SpecMsgPack == Init /\ [][NextMsgPack]_vars

(***************************************************************************)
(* Properties of the registry.                                             *)
(***************************************************************************)

\* The calls of the history whose string parsed.
Registrations == { i \in 1..Len(calls) : ~Malformed(calls[i][1]) }

\* The first registration whose string has the parse result ct.
FirstRegistration(ct) ==
    CHOOSE i \in Registrations :
        /\ ParseContentType(calls[i][1]) = ct
        /\ \A j \in Registrations : ParseContentType(calls[j][1]) = ct => i <= j

\* The availability list elements that are equal to ct.
Entries(ct) == { n \in 1..Len(available) : available[n] = ct }

\* C1, in every state: each normalized key holds the transcoder of the first
\* registration for it.
FirstRegistrationStays ==
    \A i \in Registrations :
        LET ct == ParseContentType(calls[i][1]) IN
        /\ Str(ct) \in DOMAIN handlers
        /\ handlers[Str(ct)] = calls[FirstRegistration(ct)][2]

\* C1, in every step: a registration whose string normalizes to a key that is
\* already there changes neither the handler map nor the availability list and
\* raises nothing.
LaterRegistrationIsNoOp ==
    /\ last'.op = "setitem"
    /\ ~Malformed(last'.arg)
    /\ Str(ParseContentType(last'.arg)) \in DOMAIN handlers
    => /\ handlers' = handlers
       /\ available' = available
       /\ last'.raised = None

\* C1: after any sequence of registrations the transcoder stored under a
\* normalized key is the one of the first registration for that key, and every
\* later registration for an existing key is a no-op that raises no error.
C1_FirstRegistrationWins ==
    /\ []FirstRegistrationStays
    /\ [][LaterRegistrationIsNoOp]_vars

\* C1 witness: two registrations for one key with different transcoders, the
\* second of them just made, and the key still holds the first transcoder.
C1_Witness ==
    /\ last.op = "setitem"
    /\ \E i \in Registrations :
          /\ i < Len(calls)
          /\ Len(calls) \in Registrations
          /\ ParseContentType(calls[i][1]) = ParseContentType(calls[Len(calls)][1])
          /\ calls[i][2] # calls[Len(calls)][2]
          /\ handlers[Str(ParseContentType(calls[i][1]))] = calls[i][2]

\* The <<lower-cased name, value>> pairs of a string's parameters.
FoldedNamePairs(s) ==
    { << Lower(Tokens(s).params[i][1]), Tokens(s).params[i][2] >> :
        i \in 1..Len(Tokens(s).params) }

\* Two strings differ at most in the order of their parameters and in the
\* letter case of their parameter names.
SameUpToOrderAndNameCase(a, b) ==
    /\ ~Malformed(a) /\ ~Malformed(b)
    /\ Tokens(a).slash = Tokens(b).slash
    /\ Len(Tokens(a).params) = Len(Tokens(b).params)
    /\ FoldedNamePairs(a) = FoldedNamePairs(b)

\* C8: two media-type strings that differ only in the order of their
\* parameters or in the letter case of their parameter names share one
\* registry key: registering both leaves one entry that holds the first
\* handler, and a lookup with either string returns that handler.
C8_ParameterOrderAndNameCase ==
    /\ \A i, j \in Registrations :
          i < j /\ SameUpToOrderAndNameCase(calls[i][1], calls[j][1])
          => LET a == ParseContentType(calls[i][1])
                 b == ParseContentType(calls[j][1])
             IN /\ Cardinality(Entries(a) \cup Entries(b)) = 1
                /\ Cardinality({ k \in DOMAIN handlers : k \in {Str(a), Str(b)} }) = 1
                /\ handlers[Str(b)] = calls[FirstRegistration(a)][2]
    /\ last.op = "getitem"
       => \A i \in Registrations :
             SameUpToOrderAndNameCase(calls[i][1], last.arg)
             => /\ last.raised = None
                /\ last.value = calls[FirstRegistration(ParseContentType(calls[i][1]))][2]

\* C8 witness: a string was registered, then one that differs from it in
\* parameter order and name case with another handler, and the second string
\* was looked up.
C8_Witness ==
    /\ last.op = "getitem" /\ last.raised = None
    /\ \E i, j \in Registrations :
          /\ i < j
          /\ calls[i][1] # calls[j][1]
          /\ calls[i][2] # calls[j][2]
          /\ SameUpToOrderAndNameCase(calls[i][1], calls[j][1])
          /\ last.arg = calls[j][1]
          /\ FirstRegistration(ParseContentType(calls[i][1])) = i
          /\ last.value = calls[i][2]

\* The two spellings of the charset value.
CharsetUpper == "application/json; charset=UTF-8"
CharsetLower == "application/json; charset=utf-8"

\* C9: registering application/json with charset=UTF-8 and then with
\* charset=utf-8 creates one registry entry and one availability-list element,
\* and a lookup with either casing returns the first registered handler.
C9_CharsetValueCase ==
    /\ \A i, j \in Registrations :
          i < j /\ calls[i][1] = CharsetUpper /\ calls[j][1] = CharsetLower
          => /\ Cardinality({ n \in 1..Len(available) :
                   /\ available[n].content_type = "application"
                   /\ available[n].content_subtype = "json"
                   /\ DOMAIN available[n].parameters = {"charset"} }) = 1
             /\ Cardinality({ k \in DOMAIN handlers :
                   k \in { Str(ParseContentType(CharsetUpper)),
                           Str(ParseContentType(CharsetLower)) } }) = 1
    /\ last.op = "getitem" /\ last.arg \in {CharsetUpper, CharsetLower}
       /\ (\E i \in Registrations : calls[i][1] \in {CharsetUpper, CharsetLower})
       => /\ last.raised = None
          /\ last.value =
               calls[CHOOSE i \in Registrations :
                        /\ calls[i][1] \in {CharsetUpper, CharsetLower}
                        /\ \A j \in Registrations :
                              calls[j][1] \in {CharsetUpper, CharsetLower}
                              => i <= j][2]

\* C9 witness: UTF-8 registered with one handler, utf-8 with another, and the
\* lower-case spelling looked up.
C9_Witness ==
    /\ Len(calls) >= 2
    /\ calls[1][1] = CharsetUpper /\ calls[2][1] = CharsetLower
    /\ calls[1][2] # calls[2][2]
    /\ last.op = "getitem" /\ last.arg = CharsetLower
    /\ last.value = calls[1][2]
    /\ Len(available) = 1

\* C10 as stated: for every string s the lookup returns the stored transcoder
\* if an earlier registration used a string with the same normalized form, and
\* fails with KeyError otherwise.
C10_LookupEveryString ==
    last.op = "getitem"
    => IF \E i \in Registrations :
             /\ ~Malformed(last.arg)
             /\ ParseContentType(calls[i][1]) = ParseContentType(last.arg)
       THEN /\ last.raised = None
            /\ last.value = calls[FirstRegistration(ParseContentType(last.arg))][2]
       ELSE last.raised = "KeyError"

\* C10 amended: for every string s that parses as a media type the lookup
\* returns the stored transcoder if and only if an earlier registration used a
\* string with the same normalized form, and fails with KeyError otherwise; a
\* string that does not parse fails with ValueError.
C10_LookupNormalizes ==
    last.op = "getitem"
    => IF Malformed(last.arg)
       THEN last.raised = "ValueError"
       ELSE IF \E i \in Registrations :
                  ParseContentType(calls[i][1]) = ParseContentType(last.arg)
       THEN /\ last.raised = None
            /\ last.value = calls[FirstRegistration(ParseContentType(last.arg))][2]
       ELSE last.raised = "KeyError"

\* C10 witness: a lookup found the transcoder registered under a string that
\* is spelled differently from the string looked up.
C10_Witness ==
    /\ last.op = "getitem" /\ last.raised = None
    /\ \E i \in Registrations :
          /\ calls[i][1] # last.arg
          /\ ParseContentType(calls[i][1]) = ParseContentType(last.arg)
          /\ last.value = calls[i][2]
    /\ \A i \in 1..Len(calls) : calls[i][1] # last.arg

(***************************************************************************)
(* Response negotiation (SpecNegotiation).                                 *)
(***************************************************************************)

\* The elements of a sequence.
Range(seq) == { seq[i] : i \in 1..Len(seq) }

\* The <<range, type>> pairs of the Accept header h and the registered types
\* in which the range matches the type.
Matches(h) ==
    { m \in Range(ParseAccept(h)) \X Range(available) : ContentTypeMatches(m[2], m[1]) }

\* The range names exactly the registered type.
Exact(m) == ContentTypeEq(m[2], m[1])

\* Match m is more specific than match o: an exact match before any other,
\* then a full type before type/* before */*, then the fewer parameters of
\* the registered type the range leaves unmatched.
MoreSpecific(m, o) ==
    \/ Exact(m) /\ ~Exact(o)
    \/ /\ ~Exact(m) /\ ~Exact(o)
       /\ \/ MatchType(m[1]) < MatchType(o[1])
          \/ /\ MatchType(m[1]) = MatchType(o[1])
             /\ ParameterDistance(m[2], m[1]) < ParameterDistance(o[2], o[1])

\* The matches of the header that no other match is more specific than.
MostSpecific(h) == { m \in Matches(h) : \A o \in Matches(h) : ~MoreSpecific(o, m) }

\* The quality value written in the header: parse_accept raises an explicit
\* q=1.0 above 1.0 only to order it.
QualityValue(range) ==
    IF range.quality > Float("1.0") THEN Float("1.0") ELSE range.quality

\* Among the equally specific matches, those of the highest quality value.
Preferred(h) ==
    { m \in MostSpecific(h) :
        \A o \in MostSpecific(h) : QualityValue(m[1]) >= QualityValue(o[1]) }

\* The last operation negotiated the response type of the request from its
\* Accept header: nothing was memoized before it.
NegotiatedFromAccept(op) ==
    /\ last.op = op
    /\ "Accept" \in DOMAIN headers
    /\ IF op = "send_response" THEN last.negotiated.computed
       ELSE last.result.computed

\* The request of test_that_accept_header_is_obeyed against an application
\* with exactly application/json and application/msgpack.
ObeyedRequest ==
    /\ NegotiatedFromAccept("get_response_content_type")
    /\ headers["Accept"] = "application/msgpack;q=1.0, application/json;q=0.5"
    /\ Range(available) = { ParseContentType("application/json"),
                            ParseContentType("application/msgpack") }

\* C2: when several ranges of the Accept header match registered types
\* equally specifically, get_response_content_type returns the type matched
\* by the range of the highest quality value; with application/json and
\* application/msgpack registered, in either order, and
\* 'Accept: application/msgpack;q=1.0, application/json;q=0.5' it returns
\* application/msgpack.
C2_HigherQualityWins ==
    /\ ( /\ NegotiatedFromAccept("get_response_content_type")
         /\ Matches(headers["Accept"]) # {} )
       => /\ last.result.raised = None
          /\ \E m \in Preferred(headers["Accept"]) :
               last.result.value = TypeString(m[2])
    /\ ObeyedRequest => last.result.value = "application/msgpack"

\* The request of the test answered, application/json registered first.
C2_Witness ==
    /\ ObeyedRequest
    /\ Len(available) = 2
    /\ available[1] = ParseContentType("application/json")
    /\ last.result.value = "application/msgpack"

\* C3: when the Accept header is present, none of its ranges matches a
\* registered type and a default content type is set, the negotiation gives
\* the default content type and send_response succeeds, encoding the body
\* with the transcoder of the default content type.
C3_DefaultFallbackSucceeds ==
    ( /\ NegotiatedFromAccept("send_response")
      /\ Matches(headers["Accept"]) = {}
      /\ default_content_type # None )
    => /\ last.negotiated.raised = None
       /\ last.negotiated.value = default_content_type
       /\ last.raised = None
       /\ last.transcoder = Lookup(default_content_type).value

\* C4: when no range of the Accept header matches a registered type and no
\* default content type is set, send_response raises HTTP 415 and leaves the
\* response alone: no bytes written, no Content-Type, no Vary.
C4_NoMatchNoDefaultIs415 ==
    [][ ( /\ last'.op = "send_response"
          /\ last'.negotiated.computed
          /\ "Accept" \in DOMAIN headers
          /\ Matches(headers["Accept"]) = {}
          /\ default_content_type = None )
        => /\ last'.raised = "HTTPError 415"
           /\ response' = response ]_vars

\* 'Accept: application/xml' refused by an application that has transcoders
\* but no default content type.
C4_Witness ==
    /\ NegotiatedFromAccept("send_response")
    /\ headers["Accept"] = "application/xml"
    /\ available # << >>
    /\ default_content_type = None
    /\ last.raised = "HTTPError 415"
    /\ response = NoResponse

\* C6: once get_response_content_type has returned within a request, every
\* later call of that request returns what the first call returned, whatever
\* the first result was and whatever happened to the Accept header, the
\* default content type and the registry in between.
C6_ResponseTypeMemoized ==
    ( /\ last.op = "get_response_content_type"
      /\ "get_response_content_type" \in DOMAIN returned )
    => /\ last.result.raised = None
       /\ last.result.value = returned["get_response_content_type"]

(***************************************************************************)
(* Request decoding (SpecDecoding).                                        *)
(***************************************************************************)

\* The transcoder registered for the content type of the request, if the
\* request has one and it names a registered type.
RequestTranscoder ==
    IF ContentTypeValue = None \/ Malformed(ContentTypeValue)
    THEN [ raised |-> "KeyError" ]
    ELSE Lookup(TypeString(ParseContentType(ContentTypeValue)))

\* C5: get_request_body raises HTTP 415 exactly when no transcoder is
\* registered for the content type of the request, HTTP 400 exactly when
\* the transcoder found fails in from_bytes, nothing else, and returns what
\* from_bytes returned otherwise.  Stated of the calls that find nothing
\* memoized.
C5_Only415And400 ==
    ( /\ last.op = "get_request_body"
      /\ last.cached = None )
    => /\ last.result.raised \in { None, "HTTPError 415", "HTTPError 400" }
       /\ last.result.raised = "HTTPError 415" <=> RequestTranscoder.raised # None
       /\ last.result.raised = "HTTPError 400"
            <=> /\ RequestTranscoder.raised = None
                /\ FromBytes(RequestTranscoder.value, body).raised # None
       /\ last.result.raised = None
            => last.result.value = FromBytes(RequestTranscoder.value, body).value

\* C7: after a call of get_request_body has succeeded within a request,
\* every later call returns the value of that call and calls no from_bytes,
\* whatever the value was and whatever happened to the Content-Type header
\* in between.
C7_BodyDecodedOnce ==
    ( /\ last.op = "get_request_body"
      /\ ~last.first )
    => /\ last.result.raised = None
       /\ last.result.value = returned["get_request_body"]
       /\ ~last.result.decoded

(***************************************************************************)
(* The availability list and the handler map (Spec).                       *)
(***************************************************************************)

\* The normalized string of the n-th element of the availability list.
AvailableKey(n) == Str(available[n])

\* The registrations of the history for the normalized key k.
RegistrationsOf(k) ==
    { i \in Registrations : Str(ParseContentType(calls[i][1])) = k }

\* The first of them.
FirstRegistrationOf(k) ==
    CHOOSE i \in RegistrationsOf(k) : \A j \in RegistrationsOf(k) : i <= j

\* C11: the availability list and the handler map correspond one to one: no
\* two elements of the list have the same normalized string, the normalized
\* strings of the list are the keys of the map, and the list is in the order
\* in which the keys were first registered.
C11_ListMatchesMap ==
    /\ \A m, n \in 1..Len(available) : m # n => AvailableKey(m) # AvailableKey(n)
    /\ { AvailableKey(n) : n \in 1..Len(available) } = DOMAIN handlers
    /\ \A n \in 1..Len(available) : RegistrationsOf(AvailableKey(n)) # {}
    /\ \A m, n \in 1..Len(available) :
         m < n => FirstRegistrationOf(AvailableKey(m)) < FirstRegistrationOf(AvailableKey(n))

\* Two keys in the list after three registrations, one of them for a key
\* that was there before.
C11_Witness ==
    /\ Len(available) = 2
    /\ Cardinality(Registrations) = 3
    /\ last.op = "setitem"

(***************************************************************************)
(* The registry under every operation (SpecApplication).                   *)
(***************************************************************************)

\* In this step the handler map keeps every entry it has and the
\* availability list keeps its elements where they are.
RegistryGrows ==
    /\ DOMAIN handlers \subseteq DOMAIN handlers'
    /\ \A k \in DOMAIN handlers : handlers'[k] = handlers[k]
    /\ Len(available) <= Len(available')
    /\ \A n \in 1..Len(available) : available'[n] = available[n]

\* In this step, unless it is a registration, the handler map and the
\* availability list stay as they are.
OnlyRegistrationWrites ==
    last'.op # "setitem" => handlers' = handlers /\ available' = available

\* C12: the registry only grows and only by registration: no operation
\* removes or replaces an entry of the handler map or an element of the
\* availability list, and lookup, get, set_default_content_type, install,
\* get_settings, get_response_content_type, get_request_body and
\* send_response leave both unchanged.
C12_RegistryOnlyGrows ==
    [][RegistryGrows /\ OnlyRegistrationWrites]_vars

\* install called for an application whose settings hold a transcoder.
C12_Witness ==
    /\ last.op = "install"
    /\ ~last.created
    /\ handlers # << >>
    /\ Len(available) = Cardinality(DOMAIN handlers)

(***************************************************************************)
(* The selection of the response type (SpecSelection).                     *)
(***************************************************************************)

\* The last operation negotiated the response type of a request that has no
\* Accept header: nothing was memoized before it.
NegotiatedWithoutAccept ==
    /\ last.op = "get_response_content_type"
    /\ last.result.computed
    /\ "Accept" \notin DOMAIN headers

\* What the negotiation gives for the Accept header value h in this state.
NegotiatedWith(h) ==
    CHOOSE r \in
      { IF m.raised = None THEN TypeString(m.selected) ELSE default_content_type :
          m \in { SelectContentType(acceptable, available) :
                    acceptable \in {ParseAccept(h)} } } : TRUE

\* C13: for a request without Accept header, get_response_content_type
\* returns the default content type D of the registry, whatever is
\* registered and in whatever order.
C13_NoAcceptGivesDefault ==
    ( /\ NegotiatedWithoutAccept
      /\ default_content_type # None )
    => /\ last.result.raised = None
       /\ last.result.value = default_content_type

\* C14 as stated: a request without Accept header gets the response type
\* that the same request with 'Accept: */*' gets, for every registry and
\* every default content type.
C14_AbsentIsWildcard ==
    NegotiatedWithoutAccept
    => /\ last.result.raised = None
       /\ last.result.value = NegotiatedWith("*/*")

\* C14: a request without Accept header gets the response type that the
\* same request with 'Accept: */*' gets when no default content type is
\* set, and the one that the same request with 'Accept: D' gets when the
\* default content type is D.
C14_AbsentIsDefaultOrWildcard ==
    NegotiatedWithoutAccept
    => /\ last.result.raised = None
       /\ default_content_type = None
            => last.result.value = NegotiatedWith("*/*")
       /\ default_content_type # None
            => last.result.value = NegotiatedWith(default_content_type)

\* No Accept header, the default application/msgpack, and a registry in
\* which 'Accept: */*' selects application/json.
C14_Witness ==
    /\ NegotiatedWithoutAccept
    /\ default_content_type = "application/msgpack"
    /\ last.result.value = "application/msgpack"
    /\ NegotiatedWith("*/*") = "application/json"

\* The kind of range of a match: a full type, type/*, or */*.
RangeKind(m) == MatchType(m[1])

\* The matches of the header by the most specific kind of range that
\* matches anything.
BestKind(h) == { m \in Matches(h) : \A o \in Matches(h) : RangeKind(m) <= RangeKind(o) }

\* C15: a registered type matched by a range that names it is selected
\* before one matched only by a type/* range, and that before one matched
\* only by */*, whatever the quality values of the ranges are.
C15_SpecificRangeFirst ==
    ( /\ NegotiatedFromAccept("get_response_content_type")
      /\ Matches(headers["Accept"]) # {} )
    => /\ last.result.raised = None
       /\ \E m \in BestKind(headers["Accept"]) : last.result.value = TypeString(m[2])

\* The text/* range of quality 0.8 wins over the */* range of quality 1,
\* which also matches application/json.
WildcardLoses ==
    /\ NegotiatedFromAccept("get_response_content_type")
    /\ headers["Accept"] = "*/*, text/*;q=0.8"
    /\ ParseContentType("application/json") \in Range(available)
    /\ last.result.value = "text/xml"

\* The range of quality 0.5 that names application/msgpack wins over the
\* application/* range of quality 1, which also matches application/json.
C15_Witness ==
    /\ NegotiatedFromAccept("get_response_content_type")
    /\ headers["Accept"] = "application/*, application/msgpack;q=0.5"
    /\ ParseContentType("application/json") \in Range(available)
    /\ last.result.value = "application/msgpack"

\* The position in the availability list of the earliest registered type
\* among the preferred matches of the header.
EarliestPreferred(h) ==
    CHOOSE n \in 1..Len(available) :
        /\ \E m \in Preferred(h) : m[2] = available[n]
        /\ \A k \in 1..Len(available) :
             (\E m \in Preferred(h) : m[2] = available[k]) => n <= k

\* C16: when several registered types match the Accept header equally
\* specifically and with equal quality, get_response_content_type returns
\* the one that was registered first.
C16_EarliestRegistrationWins ==
    ( /\ NegotiatedFromAccept("get_response_content_type")
      /\ Matches(headers["Accept"]) # {} )
    => /\ last.result.raised = None
       /\ last.result.value = TypeString(available[EarliestPreferred(headers["Accept"])])

(***************************************************************************)
(* What send_response sends (SpecNegotiation).                             *)
(***************************************************************************)

\* What the selected transcoder made of the value of the last send_response.
Encoded == ToBytes(last.transcoder, last.value)

\* C17, in every step: a send_response that succeeds writes the bytes that
\* to_bytes of the selected transcoder returned and nothing else; with
\* set_content_type it sets Content-Type to the content type to_bytes
\* returned and adds 'Vary: Accept', without it both headers stay.
SendResponseSends ==
    ( /\ last'.op = "send_response"
      /\ last'.raised = None )
    => /\ last'.transcoder = Lookup(last'.negotiated.value).value
       /\ response'.written = Append(response.written, Encoded'.data)
       /\ last'.set_content_type
            => /\ response'.content_type = Encoded'.content_type
               /\ response'.vary = Append(response.vary, "Accept")
       /\ ~last'.set_content_type
            => /\ response'.content_type = response.content_type
               /\ response'.vary = response.vary

\* C17: a successful send_response with set_content_type true sets the
\* Content-Type header to exactly the content type returned by to_bytes of
\* the selected transcoder, which need not be the key it is registered
\* under, and adds 'Vary: Accept'; with set_content_type false it leaves
\* both headers unchanged; in both cases it writes exactly the bytes
\* to_bytes returned.
C17_SendResponseHeaders ==
    [][SendResponseSends]_vars

\* A response encoded by the JSON transcoder, registered as application/json
\* and sent as 'application/json; charset="utf-8"'.
C17_Witness ==
    /\ last.op = "send_response"
    /\ last.raised = None
    /\ last.set_content_type
    /\ last.negotiated.value = "application/json"
    /\ last.transcoder = "json"
    /\ response.content_type = "application/json; charset=\"utf-8\""
    /\ response.vary = << "Accept" >>
    /\ response.written = << Encoded.data >>

(***************************************************************************)
(* Two handlers of one application (SpecTwoRequests).                      *)
(***************************************************************************)

\* In this step a call of get_response_content_type returns what the
\* negotiation gives for the headers of its own request, or a value from an
\* earlier call of the same handler: the value of its first call, unless
\* that was None, which is not kept.
OwnResponseType ==
    ( /\ last'.op = "get_response_content_type"
      /\ last'.result.raised = None )
    => IF last'.result.computed
       THEN last'.result.value = NegotiatedWith(AcceptValue)
       ELSE /\ "get_response_content_type" \in DOMAIN returned
            /\ returned["get_response_content_type"] # None
                 => last'.result.value = returned["get_response_content_type"]

\* In this step a call of get_request_body returns what the transcoder for
\* the content type of its own request decodes from its own body, or a
\* value from an earlier call of the same handler.
OwnRequestBody ==
    ( /\ last'.op = "get_request_body"
      /\ last'.result.raised = None )
    => IF last'.result.decoded
       THEN last'.result.value = FromBytes(RequestTranscoder.value, body).value
       ELSE /\ "get_request_body" \in DOMAIN returned
            /\ returned["get_request_body"] # None
                 => last'.result.value = returned["get_request_body"]

\* In this step a handler that is initialized has both caches empty.
StartsEmpty ==
    last'.op = "initialize" => best_response_match' = None /\ request_body' = None

\* C18: the caches belong to one handler: however the calls of two requests
\* against one application interleave, each call returns what its request
\* gets when handled alone, never a value the other handler memoized, and a
\* handler starts with both caches empty.
C18_CachesPerHandler ==
    [][OwnResponseType /\ OwnRequestBody /\ StartsEmpty]_vars

\* Both handlers hold a memoized response type and a memoized body, each
\* its own, and the one at work has just read its body from its cache.
C18_Witness ==
    /\ last.op = "get_request_body"
    /\ last.result.raised = None
    /\ ~last.result.decoded
    /\ best_response_match # None
    /\ other.best_response_match # None
    /\ other.best_response_match # best_response_match
    /\ other.request_body # None
    /\ other.request_body # request_body

(***************************************************************************)
(* Malformed Content-Type (SpecDecoding) and the case of parameter values  *)
(* (Spec).                                                                 *)
(***************************************************************************)

\* C19: a request whose Content-Type header does not parse as a media type
\* makes get_request_body fail with an HTTP client error of the 400 class;
\* the parse failure never comes out as another exception.
C19_MalformedContentTypeIs4xx ==
    ( /\ last.op = "get_request_body"
      /\ last.cached = None
      /\ "Content-Type" \in DOMAIN headers
      /\ Malformed(headers["Content-Type"]) )
    => last.result.raised \in { "HTTPError 400", "HTTPError 415" }

\* Two spellings of the value of a parameter that is not charset.
TypeMixed == "application/json; type=WhatEver; version=foo"
TypeLower == "application/json; type=whatever; version=foo"

\* The strings of the universe that differ from TypeLower in parameter
\* order and the case of names only.
TypeLowerSpellings ==
    { s \in RegistryStrings : SameUpToOrderAndNameCase(s, TypeLower) }

\* C20 as stated: registry keys are case-sensitive on the value of a
\* parameter other than charset: registering with type=WhatEver and with
\* type=whatever creates two entries, and a lookup with one casing does not
\* return the handler registered under the other.
C20_ValueCaseDistinguishes ==
    /\ \A i, j \in Registrations :
          calls[i][1] = TypeMixed /\ calls[j][1] = TypeLower
          => /\ Str(ParseContentType(TypeMixed)) # Str(ParseContentType(TypeLower))
             /\ Cardinality({ n \in 1..Len(available) :
                   /\ available[n].content_type = "application"
                   /\ available[n].content_subtype = "json"
                   /\ DOMAIN available[n].parameters = {"type", "version"} }) = 2
    /\ ( /\ last.op = "getitem" /\ last.arg = TypeLower
         /\ \E i \in Registrations : calls[i][1] = TypeMixed
         /\ \A i \in Registrations : calls[i][1] \notin TypeLowerSpellings )
       => last.raised = "KeyError"

\* C20: registry keys are case-insensitive on the value of every parameter:
\* registering with type=WhatEver and with type=whatever creates one entry
\* and one availability-list element, and a lookup with either casing
\* returns the handler that was registered first.
C20_ValueCaseFolded ==
    /\ \A i, j \in Registrations :
          calls[i][1] = TypeMixed /\ calls[j][1] = TypeLower
          => /\ Str(ParseContentType(TypeMixed)) = Str(ParseContentType(TypeLower))
             /\ Cardinality({ n \in 1..Len(available) :
                   /\ available[n].content_type = "application"
                   /\ available[n].content_subtype = "json"
                   /\ DOMAIN available[n].parameters = {"type", "version"} }) = 1
             /\ Cardinality({ k \in DOMAIN handlers :
                   k \in { Str(ParseContentType(TypeMixed)),
                           Str(ParseContentType(TypeLower)) } }) = 1
    /\ ( /\ last.op = "getitem" /\ last.arg \in {TypeMixed, TypeLower}
         /\ \E i \in Registrations : calls[i][1] \in TypeLowerSpellings \cup {TypeMixed} )
       => /\ last.raised = None
          /\ last.value =
               calls[CHOOSE i \in Registrations :
                        /\ calls[i][1] \in TypeLowerSpellings \cup {TypeMixed}
                        /\ \A j \in Registrations :
                              calls[j][1] \in TypeLowerSpellings \cup {TypeMixed}
                              => i <= j][2]

\* type=WhatEver registered with one handler, type=whatever with another,
\* and the lower-case spelling looked up: the first handler comes back.
C20_Witness ==
    /\ Len(calls) >= 2
    /\ calls[1][1] = TypeMixed /\ calls[2][1] = TypeLower
    /\ calls[1][2] # calls[2][2]
    /\ last.op = "getitem" /\ last.arg = TypeLower
    /\ last.raised = None
    /\ last.value = calls[1][2]
    /\ Len(available) = 1

(***************************************************************************)
(* add_text_content_type (SpecText).                                       *)
(***************************************************************************)

\* The parameters of the string s, names and values folded, without charset.
ParametersButCharset(s) == DictPop(ParseContentType(s).parameters, "charset")

\* C21, after a call of add_text_content_type that raised nothing: the key
\* registered has the type of the string supplied, every parameter of it
\* but charset, and no charset; the key is in the registry.
TextKeyWithoutCharset ==
    ( /\ last.op = "add_text_content_type"
      /\ last.raised = None )
    => LET key == ParseContentType(last.content_type) IN
       /\ key.content_type = ParseContentType(last.arg).content_type
       /\ key.content_subtype = ParseContentType(last.arg).content_subtype
       /\ "charset" \notin DOMAIN key.parameters
       /\ key.parameters = ParametersButCharset(last.arg)
       /\ Str(key) \in DOMAIN handlers
       /\ Lookup(last.content_type).raised = None
       /\ last.arg = "application/json; charset=UTF-8"
            => /\ last.content_type = "application/json"
               /\ Lookup("application/json").raised = None
       /\ last.arg = "application/json; charset=UTF-8; version=foo"
            => last.content_type = "application/json; version=foo"

\* C21, for the lookup: a text transcoder registered first with
\* 'application/json; charset=UTF-8' is what settings['application/json']
\* returns.
TextFoundWithoutCharset ==
    ( /\ last.op = "getitem"
      /\ last.arg = "application/json"
      /\ Len(calls) > 0
      /\ calls[1][1] = "application/json" )
    => /\ last.raised = None
       /\ last.value = calls[1][2]

\* C21: add_text_content_type removes the charset parameter from the
\* content type it is given before it registers: the transcoder is stored
\* under the normalized type without charset, so that the lookup of
\* 'application/json' finds what was added as
\* 'application/json; charset=UTF-8', and every other parameter stays in
\* the key.
C21_TextCharsetDiscarded ==
    TextKeyWithoutCharset /\ TextFoundWithoutCharset

\* A content type with charset and version added: the key keeps version.
C21_Witness ==
    /\ last.op = "add_text_content_type"
    /\ last.arg = "application/json; charset=UTF-8; version=foo"
    /\ last.raised = None
    /\ "application/json; version=foo" \in DOMAIN handlers
    /\ handlers["application/json; version=foo"] = last.transcoder

(***************************************************************************)
(* The settings of an application (SpecSettings).                          *)
(***************************************************************************)

\* The application holds settings exactly when one ContentSettings was
\* built for it, and no second one is ever built.
AtMostOneInstance ==
    /\ constructed <= 1
    /\ installed <=> constructed = 1

\* The call of this step is one that creates the settings when there are
\* none: install, get_settings(force_instance=True), an add_* that did not
\* raise, or set_default_content_type.
CreatingCall ==
    \/ last'.op \in { "install", "setitem", "set_default_content_type" }
    \/ last'.op = "get_settings" /\ last'.force_instance
    \/ last'.op = "add_text_content_type" /\ last'.raised = None

\* In this step: get_settings without force_instance on an application
\* without settings returns None and builds nothing; the first creating
\* call builds instance 1; and install and get_settings on an application
\* with settings build nothing and return the instance the application has.
InstanceStep ==
    /\ ( ~installed /\ last'.op = "get_settings" /\ ~last'.force_instance )
       => /\ last'.result = None
          /\ last'.instance = None
          /\ ~installed'
          /\ constructed' = 0
    /\ ( ~installed /\ CreatingCall )
       => /\ installed'
          /\ constructed' = 1
    /\ ( ~installed /\ CreatingCall /\ last'.op \in { "install", "get_settings" } )
       => last'.created /\ last'.instance = 1
    /\ ( installed /\ last'.op \in { "install", "get_settings" } )
       => /\ ~last'.created
          /\ last'.instance = constructed
          /\ constructed' = constructed
          /\ installed'
    /\ installed => installed' /\ constructed' = constructed

\* C22: an application has at most one ContentSettings instance over its
\* lifetime: get_settings without force_instance returns None and creates
\* nothing while there is none; the first install,
\* get_settings(force_instance=True), add_* or set_default_content_type call
\* creates it; and every later install or get_settings call, in any order,
\* returns that same instance.
C22_OneSettingsInstance ==
    []AtMostOneInstance /\ [][InstanceStep]_vars

\* get_settings without force_instance returns the one instance, which
\* a transcoder was added to and whose defaults were set since.
C22_Witness ==
    /\ last.op = "get_settings"
    /\ ~last.force_instance
    /\ constructed = 1
    /\ last.instance = constructed
    /\ default_encoding = "utf8"
    /\ Len(available) = 2

\* In this step, install on an application that has settings returns
\* the instance it has and leaves both defaults, the handler map and the
\* availability list as they are.
InstallKeepsSettings ==
    ( installed /\ last'.op = "install" )
    => /\ ~last'.created
       /\ last'.instance = constructed
       /\ default_content_type' = default_content_type
       /\ default_encoding' = default_encoding
       /\ handlers' = handlers
       /\ available' = available

\* In this step, on an application that has settings, a default changes
\* only in set_default_content_type, or where the application itself
\* assigns the attribute.
OnlySetDefaultChangesDefaults ==
    ( /\ installed
      /\ \/ default_content_type' # default_content_type
         \/ default_encoding' # default_encoding )
    => last'.op \in { "set_default_content_type", "clear_default_content_type" }

\* C28: install on an application that already has a ContentSettings
\* instance, however it was created, returns that instance and leaves
\* its default_content_type, default_encoding and registered transcoders
\* unchanged, whatever arguments it is given; of the functions of the
\* module only set_default_content_type changes the defaults afterwards.
C28_InstallKeepsExisting ==
    [][InstallKeepsSettings /\ OnlySetDefaultChangesDefaults]_vars

\* install called with another default and another encoding on settings
\* that have defaults and a transcoder: they are what they were.
C28_Witness ==
    /\ last.op = "install"
    /\ ~last.created
    /\ last.arg = "application/msgpack"
    /\ last.encoding = "latin1"
    /\ default_content_type = "application/json"
    /\ default_encoding = "utf8"
    /\ Len(available) > 0

(***************************************************************************)
(* The two lookup operations (SpecLookup).                                 *)
(***************************************************************************)

\* The strings of the registrations that raised nothing.
RegisteredStrings == { calls[i][1] : i \in Registrations }

\* C27: the two lookup operations of the registry agree on registered
\* types: for every string s used in a successful registration,
\* settings.get(s) returns the transcoder settings[s] returns, and for a
\* string with no entry settings.get(s) returns the default it was given
\* where settings[s] fails.
C27_GetAgreesWithGetItem ==
    last.op = "get"
    => /\ last.arg \in RegisteredStrings
            => /\ Lookup(last.arg).raised = None
               /\ last.value = Lookup(last.arg).value
       /\ Lookup(last.arg).raised # None => last.value = last.default

(***************************************************************************)
(* Failed decoding (SpecDecoding).                                         *)
(***************************************************************************)

\* In this step, a get_request_body call that raises HTTP 415 or 400
\* leaves _request_body as it was.
FailedCallStoresNothing ==
    ( /\ last'.op = "get_request_body"
      /\ last'.result.raised \in { "HTTPError 415", "HTTPError 400" } )
    => /\ request_body' = request_body
       /\ returned' = returned

\* A get_request_body call of a request in which an earlier call failed
\* and none succeeded finds nothing cached, and for a Content-Type that
\* parses its outcome is that of the lookup and of from_bytes with the
\* header, default and registry of the moment of the call.
LaterCallDecodesAgain ==
    ( /\ last.op = "get_request_body"
      /\ last.failed
      /\ last.first )
    => /\ last.cached = None
       /\ last.result.raised = None => last.result.decoded
       /\ ( ContentTypeValue # None /\ ~Malformed(ContentTypeValue) )
          => /\ last.result.raised = "HTTPError 415"
                  <=> RequestTranscoder.raised # None
             /\ RequestTranscoder.raised = None
                  => /\ last.result.decoded
                     /\ last.result.transcoder = RequestTranscoder.value
                     /\ last.result.raised = "HTTPError 400"
                          <=> FromBytes(RequestTranscoder.value, body).raised # None
                     /\ last.result.raised = None
                          => last.result.value
                               = FromBytes(RequestTranscoder.value, body).value

\* C26: a get_request_body call that fails with 415 or 400 stores nothing
\* in the request-body cache, which is left exactly as before the call, and
\* a later call in the same request performs the lookup and the decode
\* again, against the Content-Type header and the registry of that moment.
C26_FailureNotCached ==
    []LaterCallDecodesAgain /\ [][FailedCallStoresNothing]_vars

\* A call that decodes the body with the msgpack transcoder in a request
\* whose earlier call failed: the header or the registry changed since.
C26_Witness ==
    /\ last.op = "get_request_body"
    /\ last.failed
    /\ last.first
    /\ last.result.raised = None
    /\ last.result.decoded
    /\ last.result.transcoder = "msgpack"
    /\ request_body = last.result.value
    /\ request_body # None

(***************************************************************************)
(* The lookup of send_response (SpecNegotiation).                          *)
(***************************************************************************)

\* C25: for every registry, default content type and Accept header,
\* send_response either raises HTTP 415 or finds a registered transcoder
\* for the negotiated response type: the lookup of the string that
\* get_response_content_type returned never misses, for registered types
\* with parameters and for a default content type that was never
\* registered too.
C25_SendResponseLookupNeverMisses ==
    ( /\ last.op = "send_response"
      /\ last.negotiated.raised = None )
    => \/ last.raised = "HTTPError 415"
       \/ /\ last.raised = None
          /\ Lookup(last.negotiated.value).raised = None
          /\ last.transcoder = Lookup(last.negotiated.value).value

(***************************************************************************)
(* The MessagePack transcoder (SpecMsgPack).                               *)
(***************************************************************************)

\* n is in [-2^63, 2^64-1].
InRange(n) ==
    IF n.negative THEN ~MagnitudeLt(TwoTo(63), n.magnitude)
    ELSE MagnitudeLt(n.magnitude, TwoTo(64))

\* The integer forms: the two fixints, and the unsigned and signed forms
\* of 1, 2, 4 and 8 bytes with their tags.
IntegerForms ==
    { [ family |-> "positive fixint", width |-> 0, tag |-> 0 ],
      [ family |-> "negative fixint", width |-> 0, tag |-> 0 ] }
    \cup { [ family |-> "unsigned", width |-> 2 ^ k, tag |-> 204 + k ] : k \in 0..3 }
    \cup { [ family |-> "signed", width |-> 2 ^ k, tag |-> 208 + k ] : k \in 0..3 }

\* The form f has a bit pattern for n.
Represents(f, n) ==
    CASE f.family = "positive fixint" ->
           ~n.negative /\ MagnitudeLt(n.magnitude, << 128 >>)
      [] f.family = "negative fixint" ->
           n.negative /\ MagnitudeLt(n.magnitude, << 33 >>)
      [] f.family = "unsigned" ->
           ~n.negative /\ Len(n.magnitude) <= f.width
      [] f.family = "signed" ->
           IF n.negative THEN ~MagnitudeLt(TwoTo(8 * f.width - 1), n.magnitude)
           ELSE MagnitudeLt(n.magnitude, TwoTo(8 * f.width - 1))

\* The narrowest form of a family that represents n.
Narrowest(family, n) ==
    CHOOSE f \in IntegerForms :
        /\ f.family = family
        /\ Represents(f, n)
        /\ \A g \in IntegerForms :
              g.family = family /\ Represents(g, n) => f.width <= g.width

\* The bytes the claim gives for n.
ShortestForm(n) ==
    IF ~n.negative /\ MagnitudeLt(n.magnitude, << 128 >>)
    THEN Unsigned(n.magnitude, 1)
    ELSE IF n.negative /\ MagnitudeLt(n.magnitude, << 33 >>)
    THEN << 256 - n.magnitude[1] >>
    ELSE IF ~n.negative
    THEN << Narrowest("unsigned", n).tag >>
         \o Unsigned(n.magnitude, Narrowest("unsigned", n).width)
    ELSE << Narrowest("signed", n).tag >>
         \o Complement(Decrement(Unsigned(n.magnitude, Narrowest("signed", n).width)))

\* The examples of the claim and of the tests.
IntegerExamples ==
    { << PyInt(FALSE, << 127 >>), << 127 >> >>,
      << PyInt(FALSE, << 128 >>), << 204, 128 >> >>,
      << PyInt(FALSE, << 1, 0 >>), << 205, 1, 0 >> >>,
      << PyInt(FALSE, << 1, 0, 0 >>), << 206, 0, 1, 0, 0 >> >>,
      << PyInt(FALSE, << 1, 0, 0, 0, 0 >>), << 207, 0, 0, 0, 1, 0, 0, 0, 0 >> >>,
      << PyInt(TRUE, << 1 >>), << 255 >> >>,
      << PyInt(TRUE, << 32 >>), << 224 >> >>,
      << PyInt(TRUE, << 128 >>), << 208, 128 >> >>,
      << PyInt(TRUE, << 128, 0 >>), << 209, 128, 0 >> >>,
      << PyInt(TRUE, << 128, 0, 0, 0 >>), << 210, 128, 0, 0, 0 >> >>,
      << PyInt(TRUE, << 128, 0, 0, 0, 0, 0, 0, 0 >>),
         << 211, 128, 0, 0, 0, 0, 0, 0, 0 >> >> }

\* C23: for every integer n in [-2^63, 2^64-1] packb emits the shortest
\* integer form that represents n, big-endian: one byte n for 0..127, one
\* byte 256+n for -32..-1, otherwise the narrowest of uint8/16/32/64 (tags
\* CC..CF) for positive n and of int8/16/32/64 (tags D0..D3) for negative
\* n; 127 -> 7F, 128 -> CC 80, 256 -> CD 01 00, 2^16 -> CE 00 01 00 00,
\* -1 -> FF, -32 -> E0, -128 -> D0 80, -2^15 -> D1 80 00.  The bytes decode
\* to n.
C23_IntegersShortestForm ==
    /\ ( /\ last.op = "packb"
         /\ last.datum.type = "int"
         /\ InRange(last.datum) )
       => /\ last.result.raised = None
          /\ last.result.data = ShortestForm(last.datum)
          /\ \A f \in IntegerForms :
                Represents(f, last.datum) => Len(last.result.data) <= 1 + f.width
          /\ \A e \in IntegerExamples :
                last.datum = e[1] => last.result.data = e[2]
    /\ ( /\ last.op = "unpackb"
         /\ last.datum.type = "int" )
       => /\ last.result.raised = None
          /\ last.result.value = last.datum
          /\ last.result.rest = << >>

\* -2^63 packed as int64 and unpacked.
C23_Witness ==
    /\ last.op = "unpackb"
    /\ last.datum = PyInt(TRUE, TwoTo(63))
    /\ last.data = << 211, 128, 0, 0, 0, 0, 0, 0, 0 >>
    /\ last.result.value = last.datum

RECURSIVE Supported(_)
\* v is nil, a boolean, an integer in range, a string, a byte buffer, an
\* identifier, a timestamp, or a sequence, set or string-keyed mapping of
\* such values.
Supported(v) ==
    CASE v.type \in { "NoneType", "bool", "str", "bytes", "bytearray",
                      "memoryview", "UUID", "datetime" } -> TRUE
      [] v.type = "int" -> InRange(v)
      [] v.type \in { "list", "tuple", "set" } ->
           \A i \in 1..Len(v.items) : Supported(v.items[i])
      [] v.type = "dict" ->
           \A i \in 1..Len(v.pairs) :
              v.pairs[i][1].type = "str" /\ Supported(v.pairs[i][2])
      [] OTHER -> FALSE

RECURSIVE Decoded(_)
\* What the claim says v comes back as: v itself, but a list for a tuple or
\* a set, bytes for every byte buffer, and the canonical string for an
\* identifier or a timestamp.
Decoded(v) ==
    CASE v.type \in { "NoneType", "bool", "int", "str" } -> v
      [] v.type \in { "bytes", "bytearray", "memoryview" } -> PyBytes("bytes", v.data)
      [] v.type = "UUID" -> PyStr(v.str)
      [] v.type = "datetime" -> PyStr(v.isoformat)
      [] v.type \in { "list", "tuple", "set" } ->
           PySequence("list", [ i \in 1..Len(v.items) |-> Decoded(v.items[i]) ])
      [] v.type = "dict" ->
           PyDict([ i \in 1..Len(v.pairs) |->
                      << v.pairs[i][1], Decoded(v.pairs[i][2]) >> ])

\* The bytes the tests expect for a value that goes out as a string or as
\* a byte buffer.
ExpectedBytes(v) ==
    IF v.type = "str" THEN pack_string(v.text) ELSE pack_bytes(v.data)

\* C24: for every supported structured value v (nil, booleans, integers,
\* strings, byte buffers, sequences and string-keyed mappings, nested),
\* packb succeeds and unpackb(packb(v)) equals v, except that sets and
\* tuples decode as lists and identifiers and timestamps decode as their
\* canonical string; byte buffers go out in the bin family and decode as
\* byte buffers, never as strings.
C24_RoundTrip ==
    /\ ( last.op = "packb" /\ Supported(last.datum) )
       => /\ last.result.raised = None
          /\ Decoded(last.datum).type \in { "str", "bytes" }
               => last.result.data = ExpectedBytes(Decoded(last.datum))
    /\ ( last.op = "unpackb" /\ Supported(last.datum) )
       => /\ last.result.raised = None
          /\ last.result.value = Decoded(last.datum)
          /\ last.result.rest = << >>
          /\ last.datum.type \in { "bytes", "bytearray", "memoryview" }
               => /\ last.result.value.type = "bytes"
                  /\ last.data[1] \in { 196, 197, 198 }

\* A mapping with a tuple, an int of 33 bits, a nested mapping with a
\* bytearray, a timestamp and an identifier, packed and unpacked.
C24_Witness ==
    /\ last.op = "unpackb"
    /\ last.datum.type = "dict"
    /\ Len(last.datum.pairs) = 3
    /\ last.datum.pairs[1][2].type = "tuple"
    /\ last.result.raised = None
    /\ last.result.value.pairs[1][2].type = "list"
    /\ last.result.value.pairs[1][2].items[2].pairs[1][2] = PyBytes("bytes", Foo)
    /\ last.result.value.pairs[3][2] = PyStr(UUIDText)

============================================================================
